---------------------------- MODULE Spec2Model ----------------------------
(***************************************************************************)
(* A model of the answer-resolution service (yuzi-ska/AI-Answer-database). *)
(*                                                                         *)
(* Text is a sequence of characters, each character a string.  The         *)
(* characters the model uses are CJK ideographs (named in pinyin), the     *)
(* letters of A..D, T, F, true and false, '#', '_', the blank, newline,    *)
(* tab, '<' and '>'.  Regular expressions of the source that need *)
(* a character outside this alphabet ('.', ';', '(', '{', quotes, ...)     *)
(* cannot match and are left out where noted.                              *)
(***************************************************************************)
EXTENDS Integers, Sequences, FiniteSets, TLC

-----------------------------------------------------------------------------
(* Character classes of Python's re module (str patterns, Unicode aware).  *)

\* Ideographs, each one character, written by their pinyin: tian (sky),
\* yuan (round), pan duan (judge), dui (right), cuo wu (wrong), zheng que
\* (correct), duo (multi), dan (single), xuan (select), shi fou (whether),
\* ma (question particle), ti (question), tian2 kong (fill in the blank),
\* de (of).
CJKChars == {"tian", "yuan", "pan", "duan", "dui", "cuo", "wu", "zheng", "que",
             "duo", "xuan", "dan", "shi", "fou", "ma", "ti", "tian2", "kong", "de"}
UpperChars == {"A", "B", "C", "D", "T", "F"}
LowerChars == {"b", "t", "r", "u", "e", "f", "a", "l", "s", "y", "n", "o"}
SpaceChars == {" ", "\n", "\t"}

\* [\u4e00-\u9fff]
IsCJK(c) == c \in CJKChars
\* \s
IsSpace(c) == c \in SpaceChars
\* [A-Za-z_], the first character of the identifier pattern
IsIdentStart(c) == c \in UpperChars \cup LowerChars \cup {"_"}
\* [A-Za-z0-9_]
IsIdentChar(c) == IsIdentStart(c)
\* \w: letters of any script, digits and the underscore
IsWordChar(c) == IsIdentChar(c) \/ IsCJK(c)

\* The element of a set of one element.  A value that is used more than
\* once is computed once as the element of {f(x) : x \in {e}}.
The(S) == CHOOSE x \in S : TRUE

\* s[i..] (Python slice s[i-1:])
Drop(s, n) == SubSeq(s, n + 1, Len(s))

RECURSIVE LStrip(_)
\* str.lstrip(), re.sub(r'^[\s\t]*', '', text)
LStrip(s) ==
    IF s # <<>> /\ IsSpace(Head(s)) THEN LStrip(Tail(s)) ELSE s

RECURSIVE RStrip(_)
\* str.rstrip(), re.sub(r'[\s\t]*$', '', text)
RStrip(s) ==
    IF s # <<>> /\ IsSpace(s[Len(s)]) THEN RStrip(SubSeq(s, 1, Len(s) - 1)) ELSE s

\* str.strip()
Strip(s) == RStrip(LStrip(s))

\* Index of the first element of s at or after position i that satisfies
\* the membership test, 0 when there is none.
FirstIn(s, i, set) ==
    IF \E j \in i..Len(s) : s[j] \in set
    THEN CHOOSE j \in i..Len(s) : s[j] \in set /\ \A k \in i..(j - 1) : s[k] \notin set
    ELSE 0

RECURSIVE RemoveTags(_)
\* re.sub(r'<[^>]*>', '', text): every '<' up to the next '>' is removed,
\* a '<' with no '>' after it stays.
RemoveTags(s) ==
    IF s = <<>> THEN <<>>
    ELSE IF Head(s) = "<" /\ FirstIn(s, 2, {">"}) # 0
         THEN RemoveTags(Drop(s, FirstIn(s, 2, {">"})))
         ELSE <<Head(s)>> \o RemoveTags(Tail(s))

\* Length of the longest prefix of s made of identifier characters.
IdentRun(s) ==
    IF \E j \in 1..Len(s) : ~IsIdentChar(s[j])
    THEN (CHOOSE j \in 1..Len(s) :
            ~IsIdentChar(s[j]) /\ \A k \in 1..(j - 1) : IsIdentChar(s[k])) - 1
    ELSE Len(s)

RECURSIVE RemoveIdentifiers(_, _)
\* re.sub(r'\b[A-Za-z_][A-Za-z0-9_]*\b', '', text): a run of ASCII word
\* characters is removed when it starts at a word boundary with a letter
\* and ends at a word boundary.  An ideograph is a word character, so a
\* letter next to an ideograph is at no boundary and stays.
RemoveIdentifiers(s, prevWord) ==
    IF s = <<>> THEN <<>>
    ELSE IF ~prevWord /\ IsIdentStart(Head(s))
              /\ (IdentRun(s) = Len(s) \/ ~IsWordChar(s[IdentRun(s) + 1]))
         THEN RemoveIdentifiers(Drop(s, IdentRun(s)), TRUE)
         ELSE <<Head(s)>> \o RemoveIdentifiers(Tail(s), IsWordChar(Head(s)))

\* Index of the first element of s at or after position i outside the class,
\* Len(s) + 1 when there is none.
FirstNotIn(s, i, class) ==
    IF \E j \in i..Len(s) : s[j] \notin class
    THEN CHOOSE j \in i..Len(s) : s[j] \notin class /\ \A k \in i..(j - 1) : s[k] \in class
    ELSE Len(s) + 1

RECURSIVE CollapseRuns(_, _, _)
\* re.sub(r'<class>+', rep, text) for a character class: every run of
\* characters of the class becomes the single character rep.
CollapseRuns(s, class, rep) ==
    IF s = <<>> THEN <<>>
    ELSE IF Head(s) \in class
         THEN <<rep>> \o CollapseRuns(Drop(s, FirstNotIn(s, 1, class) - 1), class, rep)
         ELSE <<Head(s)>> \o CollapseRuns(Tail(s), class, rep)

RECURSIVE TrimAroundNewlines(_)
\* re.sub(r' *\n *', '\n', text): blanks before and after a newline go.
TrimAroundNewlines(s) ==
    IF s = <<>> THEN <<>>
    ELSE IF FirstNotIn(s, 1, {" "}) <= Len(s) /\ s[FirstNotIn(s, 1, {" "})] = "\n"
         THEN <<"\n">> \o TrimAroundNewlines(
                  Drop(s, FirstNotIn(s, FirstNotIn(s, 1, {" "}) + 1, {" "}) - 1))
         ELSE <<Head(s)>> \o TrimAroundNewlines(Tail(s))

\* The normalizer's markup pass.  Of its substitutions these can match a
\* text over the model's alphabet: the tag pattern (line 135), the leading
\* and trailing blank patterns (177, 178), the identifier pattern (191) and
\* the whitespace pattern (197); then the short-text rule and the strip.
\* The script and style patterns (138-142) need a '<' that still has a '>'
\* after it, which line 135 has removed; the word pattern (188) removes
\* only whole words that the identifier pattern removes as well; the others
\* need one of . ; = ( ) { } [ ] , ' " x or a word with other letters.
remove_html_and_js(text) ==
    IF text = <<>> THEN <<>>
    ELSE The({IF Len(t4) < 5 /\ ~\E i \in 1..Len(t4) : IsCJK(t4[i])
              THEN <<>>
              ELSE Strip(t4) :
                  t4 \in {CollapseRuns(t3, SpaceChars, " ") :
                  t3 \in {RemoveIdentifiers(t2, FALSE) :
                  t2 \in {RStrip(LStrip(t1)) :
                  t1 \in {RemoveTags(text)}}}}})

\* clean_question_text: the markup pass, then strip, newline runs to one
\* newline, blank runs to one blank, blanks around a newline removed, tabs
\* removed.  The two punctuation patterns (112, 113) need a full-width
\* punctuation mark, which the alphabet does not have.
clean_question_text(text) ==
    IF text = <<>> THEN <<>>
    ELSE The({SelectSeq(t4, LAMBDA c : c # "\t") :
                  t4 \in {TrimAroundNewlines(t3) :
                  t3 \in {CollapseRuns(t2, {" "}, " ") :
                  t2 \in {CollapseRuns(t1, {"\n"}, "\n") :
                  t1 \in {Strip(t0) :
                  t0 \in {remove_html_and_js(text)}}}}}})

-----------------------------------------------------------------------------
(* Type detection (question_detector.detect_question_type).                *)

\* re.search of a one-character class
HasChar(s, class) == \E i \in 1..Len(s) : s[i] \in class

\* re.search of a fixed string
HasSub(s, sub) ==
    \E i \in 1..(Len(s) - Len(sub) + 1) : SubSeq(s, i, i + Len(sub) - 1) = sub

\* re.search(r'[<fw(>\(][\s<marker chars>\s][<fw)>\)]', s): an opening
\* bracket, ONE character of the class, a closing bracket.  "fw(" and "fw)"
\* are the full-width brackets.
HasBracketed(s, class) ==
    \E i \in 1..(Len(s) - 2) :
        /\ s[i] \in {"(", "fw("}
        /\ s[i + 1] \in class \cup SpaceChars
        /\ s[i + 2] \in {")", "fw)"}

\* re.search(r'<open>\s*<close>', s)
HasEmptyBrackets(s, open, close) ==
    \E i \in 1..Len(s) :
        /\ s[i] = open
        /\ FirstNotIn(s, i + 1, SpaceChars) <= Len(s)
        /\ s[FirstNotIn(s, i + 1, SpaceChars)] = close

\* re.search(r'_{n,}', s)
HasUnderscores(s, n) ==
    \E i \in 1..(Len(s) - n + 1) : \A k \in i..(i + n - 1) : s[k] = "_"

\* str.startswith
StartsWith(s, prefix) ==
    Len(s) >= Len(prefix) /\ SubSeq(s, 1, Len(prefix)) = prefix

IsMultiMarked(q) == HasBracketed(q, {"duo", "xuan"}) \/ HasChar(q, {"duo", "xuan"})
IsJudgmentMarked(q) == HasBracketed(q, {"pan", "duan"}) \/ HasChar(q, {"pan", "duan"})

DetectedType(question, options) ==
    IF options # <<>> /\ Strip(options) # <<>>
    THEN IF IsMultiMarked(question) THEN "multiple"
         ELSE IF IsJudgmentMarked(question) THEN "judgment"
         ELSE "single"
    ELSE IF \/ HasUnderscores(question, 3)
            \/ HasEmptyBrackets(question, "fw(", "fw)")
            \/ HasEmptyBrackets(question, "(", ")")
         THEN "completion"
    ELSE IF \/ HasBracketed(question, {"pan", "duan"})
            \/ HasChar(question, {"dui", "cuo"})
            \/ HasSub(question, <<"zheng", "que">>)
            \/ HasSub(question, <<"cuo", "wu">>)
            \/ HasSub(question, <<"shi", "fou">>)
            \/ HasSub(question, <<"dui", "ma">>)
         THEN "judgment"
    ELSE IF IsMultiMarked(question) THEN "multiple"
    ELSE IF HasBracketed(question, {"dan", "xuan"}) \/ HasChar(question, {"dan", "xuan"})
         THEN "single"
    \* Lines 59-64: a leading single- or multi-choice tag holds "xuan" and
    \* was caught above.  "lb" and "rb" are the lenticular brackets.
    ELSE IF \/ StartsWith(question, <<"lb", "pan", "duan", "ti", "rb">>)
            \/ StartsWith(question, <<"(", "pan", "duan", "ti", ")">>)
         THEN "judgment"
    \* Lines 71-80 all return completion.
    ELSE "completion"

\* detect_question_type: the detection on the stripped question.
detect_question_type(question0, options) ==
    The({DetectedType(question, options) : question \in {Strip(question0)}})

-----------------------------------------------------------------------------
(* Values as Python holds them after json.loads: a tagged record.          *)

Str(s) == [t |-> "str", v |-> s]
List(l) == [t |-> "list", v |-> l]
Dict(d) == [t |-> "dict", v |-> d]
Num(n) == [t |-> "num", v |-> n]
None == [t |-> "none", v |-> <<>>]
\* The outcome of a call that raised.
Raised == [t |-> "raise", v |-> <<>>]

\* bool(x)
Truthy(x) ==
    CASE x.t = "str" -> x.v # <<>>
      [] x.t = "list" -> x.v # <<>>
      [] x.t = "dict" -> DOMAIN x.v # {}
      [] x.t = "num" -> x.v # 0
      [] OTHER -> FALSE

-----------------------------------------------------------------------------
(* The answer formatter (question_detector.normalize_answer_for_type).     *)

RECURSIVE SplitLines(_)
\* str.split('\n')
SplitLines(s) ==
    IF FirstIn(s, 1, {"\n"}) = 0 THEN <<s>>
    ELSE <<SubSeq(s, 1, FirstIn(s, 1, {"\n"}) - 1)>>
             \o SplitLines(Drop(s, FirstIn(s, 1, {"\n"})))

\* [line.strip() for line in options.split('\n') if line.strip()]
OptionLines(options) ==
    The({SelectSeq([i \in 1..Len(lines) |-> Strip(lines[i])], LAMBDA l : l # <<>>) :
             lines \in {SplitLines(options)}})

\* re.match(r'^([A-Z])[.\s<dunhao>]\s*(.+)', line) on a stripped line
OptionMatches(line) ==
    /\ Len(line) >= 3
    /\ line[1] \in UpperChars
    /\ line[2] \in SpaceChars \cup {".", "dunhao"}
    /\ LStrip(Drop(line, 2)) # <<>>
OptionLetter(line) == line[1]
OptionText(line) == LStrip(Drop(line, 2))

\* The letter the loop of lines 257-263 returns for a single-choice answer:
\* the option map keeps the first position of an option text and the letter
\* of its last line; the first text of the map found in the answer decides.
\* <<>> when no option text is in the answer.
LetterOfLines(answer, lines) ==
    LET hits == {i \in 1..Len(lines) :
                    /\ HasSub(answer, OptionText(lines[i]))
                    /\ \A k \in 1..(i - 1) : OptionText(lines[k]) # OptionText(lines[i])}
    IN  IF hits = {} THEN <<>>
        ELSE LET first == CHOOSE i \in hits : \A k \in hits : i <= k
                 last == CHOOSE i \in 1..Len(lines) :
                            /\ OptionText(lines[i]) = OptionText(lines[first])
                            /\ \A k \in (i + 1)..Len(lines) :
                                   OptionText(lines[k]) # OptionText(lines[first])
             IN  <<OptionLetter(lines[last])>>

LetterOfOption(answer, options) ==
    The({LetterOfLines(answer, lines) :
             lines \in {SelectSeq(OptionLines(options), OptionMatches)}})

JudgmentYes == {<<"dui">>, <<"zheng", "que">>, <<"check">>, <<"T">>,
                <<"t", "r", "u", "e">>, <<"T", "r", "u", "e">>}
JudgmentNo == {<<"cuo">>, <<"cuo", "wu">>, <<"cross">>, <<"F">>,
               <<"f", "a", "l", "s", "e">>, <<"F", "a", "l", "s", "e">>}

\* answer and the result are values; options is a text.  Raised when the
\* answer is a truthy value without strip(), i.e. not a str.
NormalizedText(answer, question_type, options) ==
    IF question_type = "completion"
    THEN The({IF Len(cleaned_answer) = 1 /\ cleaned_answer[1] \in UpperChars
                 /\ options # <<>>
              THEN answer
              ELSE cleaned_answer : cleaned_answer \in {clean_question_text(answer)}})
    ELSE IF question_type = "judgment"
    THEN IF answer \in JudgmentYes THEN <<"dui">>
         ELSE IF answer \in JudgmentNo THEN <<"cuo">>
         ELSE answer
    ELSE IF question_type \in {"single", "multiple"}
    THEN IF answer # <<>> /\ \A i \in 1..Len(answer) : answer[i] \in UpperChars \cup {"#"}
         THEN answer
         ELSE IF options # <<>> /\ question_type = "single"
         THEN The({IF letter # <<>> THEN letter ELSE answer :
                       letter \in {LetterOfOption(answer, options)}})
         ELSE answer
    ELSE clean_question_text(answer)

normalize_answer_for_type(answer0, question_type, options) ==
    IF ~Truthy(answer0) THEN Str(<<>>)
    ELSE IF answer0.t # "str" THEN Raised
    ELSE The({Str(NormalizedText(answer, question_type, options)) :
                  answer \in {Strip(answer0.v)}})

-----------------------------------------------------------------------------
(* Remote question bank: configuration and response handlers               *)
(* (answer_processor.py).                                                  *)

\* dict.get(key, default) on a Dict value
Get(d, key, default) == IF key \in DOMAIN d.v THEN d.v[key] ELSE default

\* str(x).  The text of a value that is not a str is kept as one character
\* naming its type: a non-empty text without letters or ideographs.
PyStr(x) ==
    CASE x.t = "str" -> x
      [] x.t = "list" -> Str(<<"[]">>)
      [] x.t = "dict" -> Str(<<"{}">>)
      [] x.t = "num" -> Str(<<"0-9">>)
      [] OTHER -> Str(<<"None">>)

\* settings.QUESTION_BANK_CONFIG is a string: empty, an http(s) URL, text
\* that is not JSON, or JSON text (src holds the decoded value).
\* parse_ocs_config: the list of configs, or None.
parse_ocs_config(config_source) ==
    IF config_source.t # "json" THEN None
    ELSE IF config_source.src.t = "list" THEN config_source.src
    ELSE IF config_source.src.t = "dict" THEN List(<<config_source.src>>)
    ELSE None

\* The handler names are texts of one character each.
SAFE_HANDLERS == {<<"default">>, <<"ocs_standard">>, <<"array_response">>}

\* "title" in data and ("answers" in data or "answer" in data), for data a
\* dict (keys) or a list (elements; the model's lists hold no such str);
\* for a str it asks for substrings, which the model's texts do not hold.
\* Raised for a value that has no "in".
OcsShape(data) ==
    CASE data.t = "dict" ->
             IF "title" \in DOMAIN data.v
                /\ ("answers" \in DOMAIN data.v \/ "answer" \in DOMAIN data.v)
             THEN Str(<<"T">>) ELSE Str(<<>>)
      [] data.t \in {"list", "str"} -> Str(<<>>)
      [] OTHER -> Raised

\* The handler as it was when the handler text was evaluated as code: the
\* text "res" gives the response itself, paired with itself; any other
\* text that is no name fails.
ExecuteHandlerCode(handler_code, res) ==
    IF handler_code = Str(<<"r", "e", "s">>) THEN List(<<res, res>>) ELSE None

\* execute_handler_safely: a List of two values, or None (also when the
\* body of the function raised, lines 532-534, as the test of line 509
\* does for a handler that is a list or a dict).  The handler text is
\* compared with the names, and is not looked at otherwise.
execute_handler_safely(handler_code, res) ==
    IF handler_code.t \in {"list", "dict"} THEN None
    ELSE IF handler_code.t = "str" /\ handler_code.v = <<"default">>
    THEN IF res.t = "dict"
         THEN List(<<Get(res, "question", Str(<<>>)), Get(res, "answer", Str(<<>>))>>)
         ELSE List(<<Str(<<>>), PyStr(res)>>)
    ELSE IF handler_code.t = "str" /\ handler_code.v = <<"ocs_standard">>
    THEN IF res.t = "dict" /\ Get(res, "code", None) = Num(1)
         THEN LET data == Get(res, "data", Dict(<<>>)) IN
              IF data.t # "dict" THEN None
              ELSE List(<<Get(data, "title", Str(<<>>)), Get(data, "answers", Str(<<>>))>>)
         ELSE None
    ELSE IF handler_code.t = "str" /\ handler_code.v = <<"array_response">>
    THEN IF res.t = "list" /\ Len(res.v) >= 2
         THEN List(<<res.v[1], res.v[2]>>)
         ELSE None
    ELSE IF res.t = "dict" /\ "question" \in DOMAIN res.v /\ "answer" \in DOMAIN res.v
    THEN List(<<res.v["question"], res.v["answer"]>>)
    ELSE IF res.t = "dict" /\ "code" \in DOMAIN res.v /\ "data" \in DOMAIN res.v
            /\ OcsShape(res.v["data"]) = Raised
    THEN None
    ELSE IF res.t = "dict" /\ "code" \in DOMAIN res.v /\ "data" \in DOMAIN res.v
            /\ Truthy(OcsShape(res.v["data"]))
    THEN List(<<res.v["data"].v["title"],
                Get(res.v["data"], "answers", Get(res.v["data"], "answer", Str(<<>>)))>>)
    ELSE IF res.t = "list" /\ Len(res.v) >= 2
    THEN List(<<PyStr(res.v[1]), PyStr(res.v[2])>>)
    ELSE List(<<Str(<<>>), PyStr(res)>>)

\* A response body is [json |-> the decoded value, or Raised when the text
\* is not JSON, text |-> the text as received].
\* handle_ocs_response: the handler's pair, or None.
handle_ocs_response(body, config) ==
    LET content_type == Get(config, "contentType", Str(<<"json">>))
        response_data == IF content_type = Str(<<"json">>) THEN body.json ELSE Str(body.text)
        handler_code == Get(config, "handler", Str(<<>>))
    IN  IF response_data = Raised THEN None
        ELSE IF ~Truthy(handler_code) THEN None
        ELSE execute_handler_safely(handler_code, response_data)

\* Lines 219-239 of query_ocs_answerer: whether the config gets as far as
\* the HTTP request.  config["url"] must be there and a str; every value of
\* "data" must be a str and "headers" a dict (the model's configs carry
\* neither); the method must be a str that lower() turns to get or post.
IssuesRequest(config) ==
    /\ "url" \in DOMAIN config.v
    /\ config.v["url"].t = "str"
    /\ Get(config, "method", Str(<<"get">>)).t = "str"
    /\ Get(config, "method", Str(<<"get">>)).v \in {<<"get">>, <<"post">>, <<"GET">>, <<"POST">>}

\* A result dict of a source.  question and answer are values;
\* question_type and options are keys only of a database result (has_type).
Result(question, answer, source, confidence, has_type, question_type, options) ==
    [t |-> "result",
     v |-> [question |-> question, answer |-> answer, source |-> source,
            confidence |-> confidence, has_type |-> has_type,
            question_type |-> question_type, options |-> options]]

\* query_ocs_answerer as it would be if the timeout of the request were not
\* caught apart: whatever body there is goes to the handler.
OcsAnswerOfAnyOutcome(config, http) ==
    IF http.kind = "error" THEN None
    ELSE The({IF Truthy(handler_result) /\ Len(handler_result.v) >= 2
              THEN Result(handler_result.v[1], handler_result.v[2], "question_bank", 9,
                          FALSE, "", <<>>)
              ELSE None : handler_result \in {handle_ocs_response(http.body, config)}})

\* Lines 241-288 of query_ocs_answerer for a config that issued its request:
\* http is the outcome of the request, [kind |-> "timeout"], "error" or
\* "response" (with body).  confidence is in tenths.
OcsAnswer(config, http) ==
    IF http.kind # "response" THEN None
    ELSE LET handler_result == handle_ocs_response(http.body, config) IN
         IF Truthy(handler_result) /\ Len(handler_result.v) >= 2
         THEN Result(handler_result.v[1], handler_result.v[2], "question_bank", 9,
                     FALSE, "", <<>>)
         ELSE None

-----------------------------------------------------------------------------
(* Config validation (ocs_validator.py).                                   *)

\* field in config: "yes", "no", or "raise" for a value that is no
\* container.  In a str it asks for the substring (a text holds the field
\* name when one of its characters is that name), in a list for an element
\* equal to the str.
Contains(config, field) ==
    CASE config.t = "dict" -> IF field \in DOMAIN config.v THEN "yes" ELSE "no"
      [] config.t = "str" ->
             IF \E i \in 1..Len(config.v) : config.v[i] = field THEN "yes" ELSE "no"
      [] config.t = "list" ->
             IF \E i \in 1..Len(config.v) : config.v[i] = Str(<<field>>)
             THEN "yes" ELSE "no"
      [] OTHER -> "raise"

\* The error texts: what they tell is their kind, the index of the config
\* and the field, where the text holds them.
\* The error of a missing field as it would be if its text held no index
\* of its own (that of the first config in its place).
MissingFieldOfFirst(index, field) == [kind |-> "missing", index |-> 0, field |-> field]
MissingField(index, field) == [kind |-> "missing", index |-> index, field |-> field]
WrongType(index, field) == [kind |-> "type", index |-> index, field |-> field]
NotInEnum(index, field) == [kind |-> "enum", index |-> index, field |-> field]
Invalid(error) == [valid |-> FALSE, error |-> error]

required_fields == <<"url", "name", "handler">>

\* Lines 84-100: the optional fields with their allowed values, in the
\* order they are tested.
OptionalFields ==
    <<[field |-> "method", allowed |-> {Str(<<"get">>), Str(<<"post">>)}],
      [field |-> "contentType", allowed |-> {Str(<<"json">>), Str(<<"text">>)}],
      [field |-> "type", allowed |-> {Str(<<"fetch">>), Str(<<"GM_xmlhttpRequest">>)}]>>

\* validate_single_config: the dict it returns, or Raised.
validate_single_config(config, index) ==
    IF \E i \in 1..3 : /\ Contains(config, required_fields[i]) # "yes"
                       /\ \A k \in 1..(i - 1) : Contains(config, required_fields[k]) = "yes"
    THEN The({IF Contains(config, required_fields[i]) = "raise" THEN Raised
              ELSE Invalid(MissingField(index, required_fields[i])) :
                  i \in {i \in 1..3 :
                           /\ Contains(config, required_fields[i]) # "yes"
                           /\ \A k \in 1..(i - 1) :
                                  Contains(config, required_fields[k]) = "yes"}})
    ELSE IF config.t # "dict" THEN Raised
    ELSE IF \E i \in 1..3 : config.v[required_fields[i]].t # "str"
    THEN Invalid(WrongType(index, required_fields[
             CHOOSE i \in 1..3 :
                 /\ config.v[required_fields[i]].t # "str"
                 /\ \A k \in 1..(i - 1) : config.v[required_fields[k]].t = "str"]))
    ELSE IF \E i \in 1..3 : /\ OptionalFields[i].field \in DOMAIN config.v
                            /\ config.v[OptionalFields[i].field] \notin OptionalFields[i].allowed
    THEN Invalid(NotInEnum(index, OptionalFields[
             CHOOSE i \in 1..3 :
                 /\ OptionalFields[i].field \in DOMAIN config.v
                 /\ config.v[OptionalFields[i].field] \notin OptionalFields[i].allowed
                 /\ \A k \in 1..(i - 1) :
                        ~(/\ OptionalFields[k].field \in DOMAIN config.v
                          /\ config.v[OptionalFields[k].field]
                                 \notin OptionalFields[k].allowed)].field))
    ELSE [valid |-> TRUE, config |-> config]

\* Whether the config at position i of configs stops the loop of lines
\* 28-31: its validation raised or did not say valid.
Fails(configs, i) ==
    \E result \in {validate_single_config(configs[i], i - 1)} :
        result = Raised \/ ~result.valid

\* validate_ocs_config.  config is the text: there is src, the decoded
\* value, when the text is JSON (t = "json").
validate_ocs_config(config) ==
    IF config.t # "json" THEN Invalid([kind |-> "json"])
    ELSE IF config.src.t \notin {"list", "dict"} THEN Invalid([kind |-> "format"])
    ELSE The({IF \E i \in 1..Len(configs) : Fails(configs, i)
              THEN The({IF result = Raised THEN Invalid([kind |-> "exception"])
                        ELSE result :
                            result \in {validate_single_config(configs[i], i - 1) :
                                i \in {i \in 1..Len(configs) :
                                         /\ Fails(configs, i)
                                         /\ \A k \in 1..(i - 1) : ~Fails(configs, k)}}})
              ELSE [valid |-> TRUE, count |-> Len(configs), configs |-> configs] :
                  configs \in {IF config.src.t = "list" THEN config.src.v
                               ELSE <<config.src>>}})

-----------------------------------------------------------------------------
(* Bounds and input sets.                                                  *)

\* Resolution calls started in one behaviour.
MaxCalls == 2

\* Questions as callers send them: a clean one, the same with markup.
Titles == {<<"tian", "dui", "ma">>, <<"<", "b", ">", "tian", "dui", "ma">>}
\* The type parameter: none, a type of the enumeration, and one outside it.
TypesIn == {"", "judgment", "essay"}
\* search_question, line 214: a request may come without the type
\* parameter, which then has its default.
Omitted == "(omitted)"
TypeParameter(type) == IF type = Omitted THEN "single" ELSE type
OptionsIn == {<<>>}
QuestionTypes == {"single", "multiple", "judgment", "completion"}

\* Texts a chat completion delivers.
AIContents == <<<<" ", "zheng", "que">>, <<>>>>

\* Outcomes of the chat-completion request: a transport failure or timeout,
\* a status other than 200, a 200 whose JSON lacks choices[0].message.content,
\* a 200 with a content.
AIOutcomes ==
    <<[kind |-> "error", content |-> <<>>],
      [kind |-> "status", content |-> <<>>],
      [kind |-> "malformed", content |-> <<>>]>>
    \o [i \in 1..Len(AIContents) |-> [kind |-> "ok", content |-> AIContents[i]]]

QA(answer) ==
    Dict([k \in {"question", "answer"} |->
              IF k = "question" THEN Str(<<"tian", "dui", "ma">>) ELSE answer])

\* Bodies a remote bank delivers: question and answer (the letter of an
\* option); an empty answer; a list of answers as the answer; text that is
\* not JSON.
Bodies ==
    <<[json |-> QA(Str(<<"B">>)), text |-> <<"{}">>],
      [json |-> QA(Str(<<>>)), text |-> <<"{}">>],
      [json |-> QA(List(<<Str(<<"A">>), Str(<<"B">>)>>)), text |-> <<"{}">>],
      [json |-> Raised, text |-> <<"<", "b", ">">>]>>

HttpOutcomes ==
    <<[kind |-> "timeout", body |-> Bodies[1]],
      [kind |-> "error", body |-> Bodies[1]]>>
    \o [i \in 1..Len(Bodies) |-> [kind |-> "response", body |-> Bodies[i]]]

Config(handler) ==
    Dict([k \in {"url", "name", "handler"} |->
              IF k = "handler" THEN Str(<<handler>>) ELSE Str(<<k>>)])

\* A config that lacks one of the keys.
ConfigWithout(key) ==
    Dict([k \in {"url", "name", "handler"} \ {key} |->
              IF k = "handler" THEN Str(<<"default">>) ELSE Str(<<k>>)])

\* Values of settings.QUESTION_BANK_CONFIG: unset, one config, two configs,
\* a list whose first element is a string, a list of a config without url
\* and a config without name.
ConfigSources ==
    <<[t |-> "empty", src |-> None],
      [t |-> "json", src |-> Config("default")],
      [t |-> "json", src |-> List(<<Config("default"), Config("custom")>>)],
      [t |-> "json", src |-> List(<<Str(<<"url">>), Config("default")>>)],
      [t |-> "json", src |-> List(<<ConfigWithout("url"), ConfigWithout("name")>>)]>>

\* A row of table question_answers.
Row(question, question_type, options, answer) ==
    [question |-> question, question_type |-> question_type,
     options |-> options, answer |-> answer]

\* The table as the process finds it: empty, or holding the clean question.
InitialTables ==
    {{}, {Row(<<"tian", "dui", "ma">>, "judgment", <<>>, Str(<<"zheng", "que">>))}}

Procs == {"p1"}

-----------------------------------------------------------------------------
(* State.                                                                  *)

VARIABLES
    QUESTION_BANK_CONFIG,  \* settings.QUESTION_BANK_CONFIG
    db,                    \* the rows of table question_answers
    cache,                 \* cache_manager: key -> cached result
    bank_file,             \* the manual bank file at MANUAL_QUESTION_BANK_PATH
    call,                  \* per request slot: the resolution in flight
    started,               \* resolution calls started so far
    stale,                 \* history: cache keys set before a later bank write
    last_op,               \* history: the last two manual-bank handler calls,
                           \* or the last call of a utility function
    http_client,           \* http_client.py: _session and the sessions made
    memory_cache,          \* MemoryCache: max_size, the OrderedDict, and as
                           \* history the keys by their most recent use
    redis,                 \* the Redis client of the CacheManager and its store
    now,                   \* time.time()
    kept                   \* history: key -> what the last set of the
                           \* CacheManager stored, until a delete or a clear

\* The state of the CacheManager and the clock.
cachevars == <<memory_cache, redis, now, kept>>

\* The state of the utility modules, which the resolutions and the handlers
\* of the manual bank leave alone.
utilvars == <<http_client, cachevars>>

vars == <<QUESTION_BANK_CONFIG, db, cache, bank_file, call, started, stale, last_op,
          utilvars>>

\* settings.RESPONSE_CODE_SUCCESS, settings.RESPONSE_CODE_ERROR
RESPONSE_CODE_SUCCESS == 1
RESPONSE_CODE_ERROR == 0
\* settings.MAX_QUESTION_LENGTH
MAX_QUESTION_LENGTH == 1000

Context(title, type, options) == [title |-> title, type |-> type, options |-> options]

NoResponse == [code |-> RESPONSE_CODE_ERROR, results |-> <<>>]

IdleCall ==
    [pc |-> "idle", via |-> "", q |-> <<>>, type |-> "", options |-> <<>>,
     use_ai |-> FALSE, use_question_bank |-> FALSE, use_database |-> FALSE,
     ctx |-> Context(<<>>, "", <<>>),
     todo |-> <<>>, parsed |-> FALSE, configs |-> <<>>, cfg |-> 0,
     type_given |-> FALSE,
     invoked |-> <<>>, requests |-> <<>>, timeouts |-> {}, rows |-> {},
     answered |-> 0, bank_result |-> None,
     ai_outcome |-> 0, ai_result |-> None,
     db_failed |-> FALSE, cache_hit |-> FALSE, stale_hit |-> FALSE,
     result |-> None, response |-> NoResponse]

\* The manual bank file: a JSON object (question -> answer), or what an
\* interrupted write leaves (ok = FALSE: empty or cut-off text).
BankFile(entries) == [ok |-> TRUE, entries |-> entries]
PartialFile == [ok |-> FALSE, entries |-> {}]
\* The entries are a set of [question, answer] with one entry per question.
BankKeys(entries) == {e.question : e \in entries}

\* Questions and answers of the manual-bank handlers; the second question
\* is the first with a leading blank.
BankQuestions == {<<"tian", "dui", "ma">>, <<" ", "tian", "dui", "ma">>, <<"yuan">>}
BankAnswers == {<<"dui">>}
\* The question of Titles as the bank holds it.
AskedQuestions == {<<"tian", "dui", "ma">>}

\* http_client.py at import: _session is None, no session was made.  A session
\* is the number of its creation; open holds the sessions not closed; closing
\* holds the sessions of the close calls that wait in _session.close().
NoSession == 0
NoClient == [session |-> NoSession, made |-> 0, open |-> {}, closing |-> <<>>]

\* Entries the memory cache may hold in the model.
MaxSize == 2

\* A MemoryCache after __init__, and a CacheManager without Redis, at time 0.
EmptyMemory(max_size) == [max_size |-> max_size, cache |-> <<>>, used |-> <<>>]
NoRedis == [enabled |-> FALSE, store |-> [k \in {} |-> None]]
NoCache ==
    /\ memory_cache = EmptyMemory(MaxSize)
    /\ redis = NoRedis
    /\ now = 0
    /\ kept = [k \in {} |-> None]

Init ==
    /\ QUESTION_BANK_CONFIG \in {ConfigSources[i] : i \in 1..Len(ConfigSources)}
    /\ db \in InitialTables
    /\ cache = [k \in {} |-> None]
    /\ bank_file = BankFile({})
    /\ call = [p \in Procs |-> IdleCall]
    /\ started = 0
    /\ stale = {}
    /\ last_op = <<>>
    /\ http_client = NoClient
    /\ NoCache

-----------------------------------------------------------------------------
(* The resolution: process_question_with_multi_layer and its caller        *)
(* search_question.                                                        *)

\* normalize_options of app.models.db_utils: the normalizer applied to the
\* options.
normalize_options(options) == clean_question_text(options)

\* get_question_answer_by_full_match of app.models.db_utils: the rows that
\* match the question, the type and the options.
get_question_answer_by_full_match(table, question, question_type, options) ==
    {row \in table : /\ row.question = question
                     /\ row.question_type = question_type
                     /\ row.options = options}

\* Lines 75-88: the sources in their order.
query_functions(use_database, use_question_bank, use_ai, config_source) ==
    (IF use_database THEN <<"database">> ELSE <<>>)
    \o (IF use_question_bank /\ config_source.t # "empty" THEN <<"question_bank">> ELSE <<>>)
    \o (IF use_ai THEN <<"ai">> ELSE <<>>)

\* search_question, lines 256-300: the response for what the resolution
\* returned.
SearchResponse(c, result) ==
    IF result = None THEN NoResponse
    ELSE The({IF r.answer = Raised THEN NoResponse
              ELSE [code |-> RESPONSE_CODE_SUCCESS,
                    results |-> <<[question |-> clean_question_text(c.q),
                                   question_type |-> r.type,
                                   options |-> r.options,
                                   answer |-> r.answer]>>] :
                  r \in {[type |-> actual_type, options |-> actual_options,
                          answer |-> normalize_answer_for_type(
                                         result.v.answer, actual_type, actual_options)] :
                  actual_type \in {IF result.v.has_type THEN result.v.question_type
                                   ELSE c.type},
                  actual_options \in {IF result.v.has_type THEN result.v.options
                                      ELSE IF c.options # <<>>
                                           THEN clean_question_text(c.options)
                                           ELSE <<>>}}})

\* The call has returned result.
Returned(c, result) ==
    [c EXCEPT !.pc = "done", !.todo = <<>>, !.configs = <<>>, !.result = result,
              !.response = IF c.via = "search" THEN SearchResponse(c, result) ELSE NoResponse]

\* The loop as it would be if a source that gives nothing ended it.
NextSourceGivingUp(c) == Returned(c, None)

\* The source at the head of the list gave nothing (or raised, lines
\* 129-134): the loop goes on, and returns None after the last source.
NextSource(c) ==
    IF Len(c.todo) <= 1 THEN Returned(c, None)
    ELSE [c EXCEPT !.todo = Tail(c.todo), !.parsed = FALSE, !.configs = <<>>]

\* Lines 36-89 and the caller's lines 224-254: the context, the cache
\* lookup, the source list.  via is "search" (the flags are then those of
\* line 249-254) or "direct".  type is the caller's, Omitted when a search
\* request has no type parameter; the call keeps the parameter's value and
\* whether the caller gave it.  rows keeps, for the record, what the table
\* held for the context when the call started.
Start(p, via, q, type, options, use_ai, use_question_bank, use_database) ==
    /\ call[p].pc = "idle"
    /\ started < MaxCalls
    /\ via = "search" => use_ai /\ use_question_bank /\ ~use_database
    /\ via = "direct" => type # Omitted
    /\ \E question_context \in
              {IF via = "search"
               THEN Context(clean_question_text(q), TypeParameter(type),
                            IF options # <<>> THEN clean_question_text(options) ELSE <<>>)
               ELSE Context(q, type, options)} :
       \E clean_title \in {clean_question_text(question_context.title)},
          clean_options \in {normalize_options(question_context.options)} :
       \E final_type \in {IF question_context.type # "" THEN question_context.type
                          ELSE detect_question_type(clean_title, clean_options)} :
       \E c \in {[IdleCall EXCEPT
                      !.via = via, !.q = q, !.options = options,
                      !.type = TypeParameter(type), !.type_given = type # Omitted,
                      !.use_ai = use_ai, !.use_question_bank = use_question_bank,
                      !.use_database = use_database,
                      !.ctx = Context(clean_title, final_type, clean_options),
                      !.rows = get_question_answer_by_full_match(
                                   db, clean_title, final_type,
                                   normalize_options(clean_options)),
                      !.pc = "sources"]},
          todo \in {query_functions(use_database, use_question_bank, use_ai,
                                    QUESTION_BANK_CONFIG)} :
           call' = [call EXCEPT ![p] =
               IF c.ctx \in DOMAIN cache
               THEN Returned([c EXCEPT !.cache_hit = TRUE,
                                       !.stale_hit = c.ctx \in stale],
                             cache[c.ctx])
               ELSE IF todo = <<>> THEN Returned(c, None)
               ELSE [c EXCEPT !.todo = todo]]
    /\ started' = started + 1
    /\ UNCHANGED <<QUESTION_BANK_CONFIG, utilvars, db, cache, bank_file, stale, last_op>>

\* Lines 96-127: a source returned result, a dict.  The answer is
\* formatted (a raise is caught at line 132 and the loop goes on), an AI
\* answer is saved to the table (saved tells whether the insert worked; a
\* failure is caught at line 117), the result is cached and returned.
Deliver(p, c, source_name, result, saved) ==
    \E answer \in {normalize_answer_for_type(result.v.answer, c.ctx.type, c.ctx.options)} :
    \E formatted \in {[result EXCEPT !.v.answer = answer]} :
        IF answer = Raised
        THEN /\ call' = [call EXCEPT ![p] = NextSource(c)]
             /\ UNCHANGED <<db, cache, stale>>
        ELSE /\ call' = [call EXCEPT ![p] = Returned(c, formatted)]
             /\ db' = IF source_name = "ai" /\ Truthy(answer) /\ saved
                      THEN db \cup {Row(c.ctx.title, c.ctx.type, c.ctx.options, answer)}
                      ELSE db
             /\ cache' = [k \in DOMAIN cache \cup {c.ctx} |->
                              IF k = c.ctx THEN formatted ELSE cache[k]]
             /\ stale' = stale \ {c.ctx}

\* The loop as it would be if a source that fails ended the resolution.
NothingAndStop(p, c) ==
    /\ call' = [call EXCEPT ![p] = Returned(c, None)]
    /\ UNCHANGED <<db, cache, stale>>

\* The source gave nothing.
Nothing(p, c) ==
    /\ call' = [call EXCEPT ![p] = NextSource(c)]
    /\ UNCHANGED <<db, cache, stale>>

\* query_database: the first matching row as a result; None when there is
\* none or the query raised (works = FALSE).
QueryDatabase(p) ==
    /\ call[p].pc = "sources"
    /\ Head(call[p].todo) = "database"
    /\ \E c \in {[call[p] EXCEPT !.invoked = Append(@, "database")]} :
       \E rows \in {get_question_answer_by_full_match(
                        db, c.ctx.title, c.ctx.type, normalize_options(c.ctx.options))} :
           \/ /\ rows = {}
              /\ Nothing(p, c)
           \/ \E row \in rows :
                  Deliver(p, c, "database",
                          Result(Str(c.ctx.title), row.answer, "database", 10, TRUE,
                                 row.question_type, row.options), FALSE)
           \/ Nothing(p, [c EXCEPT !.db_failed = TRUE])
    /\ UNCHANGED <<QUESTION_BANK_CONFIG, utilvars, bank_file, started, last_op>>

\* query_question_bank, lines 184-191: the configs are parsed; without any
\* the source gives nothing.
QueryQuestionBank(p) ==
    /\ call[p].pc = "sources"
    /\ Head(call[p].todo) = "question_bank"
    /\ ~call[p].parsed
    /\ LET c == [call[p] EXCEPT !.invoked = Append(@, "question_bank")]
           ocs_configs == parse_ocs_config(QUESTION_BANK_CONFIG)
       IN  IF ~Truthy(ocs_configs)
           THEN Nothing(p, c)
           ELSE /\ call' = [call EXCEPT ![p] =
                        [c EXCEPT !.parsed = TRUE, !.configs = ocs_configs.v, !.cfg = 0]]
                /\ UNCHANGED <<db, cache, stale>>
    /\ UNCHANGED <<QUESTION_BANK_CONFIG, utilvars, bank_file, started, last_op>>

\* The loop of query_question_bank as it would be if a config that gave
\* nothing were asked again.
NextConfigAgain(p, c) ==
    /\ call' = [call EXCEPT ![p] = c]
    /\ UNCHANGED <<db, cache, stale>>

\* The loop of query_question_bank as it would be if it waited without
\* end on a config that gave nothing.
NextConfigStuck(p, c) == UNCHANGED <<call, db, cache, stale>>

\* The loop of query_question_bank goes to the next config, and returns
\* None after the last.
NextConfig(p, c) ==
    IF Len(c.configs) <= 1
    THEN Nothing(p, c)
    ELSE /\ call' = [call EXCEPT ![p] =
                 [c EXCEPT !.configs = Tail(c.configs), !.cfg = c.cfg + 1]]
         /\ UNCHANGED <<db, cache, stale>>

\* The loop of query_question_bank as it would be if it went on to the
\* next config after a config gave a result.
ReturnResultAndGoOn(p, c, result) == NextConfig(p, c)

\* Lines 197-198: a config that gave a result ends the loop, and the
\* source returns the result to line 94.
ReturnResult(p, c, result) == Deliver(p, c, "question_bank", result, FALSE)

\* One turn of the loop of lines 194-201: query_ocs_answerer for the next
\* config.  requests, timeouts, answered and bank_result keep, for the
\* record, the configs that were requested, those whose request timed out,
\* the config whose result line 198 returned, and that result.  A config that is no dict raises at line 217, and again in the
\* handler of line 200, which ends the loop at line 207.
QueryOcsAnswerer(p) ==
    /\ call[p].pc = "sources"
    /\ Head(call[p].todo) = "question_bank"
    /\ call[p].parsed
    /\ LET c == call[p]
           config == Head(c.configs)
           i == c.cfg + 1
       IN  IF config.t # "dict" THEN Nothing(p, c)
           ELSE IF ~IssuesRequest(config) THEN NextConfig(p, c)
           ELSE \E n \in 1..Len(HttpOutcomes) :
                \E c1 \in {[c EXCEPT !.requests = Append(@, i),
                                      !.timeouts = IF HttpOutcomes[n].kind = "timeout"
                                                   THEN @ \cup {i} ELSE @]} :
                \E result \in {OcsAnswer(config, HttpOutcomes[n])} :
                    IF result = None
                    THEN NextConfig(p, c1)
                    ELSE ReturnResult(p, [c1 EXCEPT !.answered = i,
                                                    !.bank_result = result], result)
    /\ UNCHANGED <<QUESTION_BANK_CONFIG, utilvars, bank_file, started, last_op>>

\* query_ai as it would be if the status of the response were not looked
\* at: whatever content there is becomes the answer.
AIAnswerOfAnyStatus(question_context, outcome) ==
    Result(Str(question_context.title), Str(Strip(outcome.content)), "ai", 8, FALSE, "", <<>>)

\* query_ai, lines 452-492: what one chat-completion request gives.  A 200
\* gives the stripped content as the answer (confidence in tenths); another
\* status (line 477-489) and any exception (line 490-492: a transport
\* failure, a timeout, a 200 whose JSON lacks the content) give None.
query_ai(question_context, outcome) ==
    IF outcome.kind = "ok"
    THEN Result(Str(question_context.title), Str(Strip(outcome.content)), "ai", 8, FALSE, "", <<>>)
    ELSE None

\* The AI source of the loop: the call keeps, for the record, the outcome
\* of the request and what query_ai gave.
QueryAI(p) ==
    /\ call[p].pc = "sources"
    /\ Head(call[p].todo) = "ai"
    /\ \E n \in 1..Len(AIOutcomes) :
       \E result \in {query_ai(call[p].ctx, AIOutcomes[n])} :
       \E c \in {[call[p] EXCEPT !.invoked = Append(@, "ai"),
                                 !.ai_outcome = n, !.ai_result = result]} :
           IF result # None
           THEN \E saved \in BOOLEAN : Deliver(p, c, "ai", result, saved)
           ELSE Nothing(p, c)
    /\ UNCHANGED <<QUESTION_BANK_CONFIG, utilvars, bank_file, started, last_op>>

\* The caller has its answer; the slot is free again.
Return(p) ==
    /\ call[p].pc = "done"
    /\ call' = [call EXCEPT ![p] = IdleCall]
    /\ UNCHANGED <<QUESTION_BANK_CONFIG, utilvars, db, cache, bank_file, started, stale, last_op>>

\* MemoryCache.get, lines 27-34: an entry whose expire time has passed is
\* gone (settings.CACHE_TTL seconds after it was set).
Expire(k) ==
    /\ k \in DOMAIN cache
    /\ cache' = [j \in DOMAIN cache \ {k} |-> cache[j]]
    /\ stale' = stale \ {k}
    /\ UNCHANGED <<QUESTION_BANK_CONFIG, utilvars, db, bank_file, call, started, last_op>>

-----------------------------------------------------------------------------
(* The manual-bank handlers (routers/answer.py).                           *)

\* load_manual_question_bank of app.utils.answer_processor: the entries of
\* the file.
load_manual_question_bank(file) == file.entries

\* open(path, 'w') and json.dump: outcome "ok" writes the whole bank,
\* "open_failed" leaves the file as it was, "write_failed" comes after
\* open() has cut the file to length 0.
WriteFile(file, entries, outcome) ==
    CASE outcome = "ok" -> BankFile(entries)
      [] outcome = "open_failed" -> file
      [] OTHER -> PartialFile
WriteOutcomes == {"ok", "open_failed", "write_failed"}

\* Cache keys of the questions: what is cached for them is older than the
\* write.
Outdated(keys) == stale \cup {k \in DOMAIN cache : k.title \in keys}

\* An add that writes its own entry and none of those it loaded.
AddEntryAlone(bank, question, answer) ==
    {[question |-> Strip(question), answer |-> Strip(answer)]}

\* bank[question.strip()] = {"answer": answer.strip(), ...}
AddEntry(bank, question, answer) ==
    {e \in bank : e.question # Strip(question)}
        \cup {[question |-> Strip(question), answer |-> Strip(answer)]}

\* del bank[question]: the key as the caller sent it.
DelEntryUnstripped(bank, question) == {e \in bank : e.question # question}

\* del bank[question.strip()]
DelEntry(bank, question) == {e \in bank : e.question # Strip(question)}

\* The HTTP status of add_manual_question.  loads tells whether
\* load_manual_question_bank returned.
AddStatus(loads, outcome) == IF loads /\ outcome = "ok" THEN 200 ELSE 500

\* A remove that does not look whether the bank holds the question.
RemoveStatusUnchecked(file, question, loads, outcome) ==
    IF ~loads THEN 500
    ELSE IF outcome = "ok" THEN 200 ELSE 500

\* The HTTP status of remove_manual_question: 404 when the question is not
\* in the bank.
RemoveStatus(file, question, loads, outcome) ==
    IF ~loads THEN 500
    ELSE IF Strip(question) \notin BankKeys(load_manual_question_bank(file)) THEN 404
    ELSE IF outcome = "ok" THEN 200 ELSE 500

\* The HTTP status of clear_manual_question_bank.
ClearStatus(outcome) == IF outcome = "ok" THEN 200 ELSE 500

\* add_manual_question.  A file that is no JSON object may make the load
\* raise.
add_manual_question(question, answer, loads, outcome) ==
    /\ loads \/ ~bank_file.ok
    /\ LET bank == AddEntry(load_manual_question_bank(bank_file), question, answer) IN
       bank_file' = IF loads THEN WriteFile(bank_file, bank, outcome) ELSE bank_file
    /\ stale' = IF AddStatus(loads, outcome) = 200
                THEN Outdated({Strip(question)}) ELSE stale
    /\ UNCHANGED <<QUESTION_BANK_CONFIG, utilvars, db, cache, call, started>>

\* remove_manual_question.
remove_manual_question(question, loads, outcome) ==
    /\ loads \/ ~bank_file.ok
    /\ LET bank == DelEntry(load_manual_question_bank(bank_file), question) IN
       bank_file' = IF RemoveStatus(bank_file, question, loads, outcome) \in {200, 500} /\ loads
                    THEN WriteFile(bank_file, bank, outcome) ELSE bank_file
    /\ stale' = IF RemoveStatus(bank_file, question, loads, outcome) = 200
                THEN Outdated({Strip(question)}) ELSE stale
    /\ UNCHANGED <<QUESTION_BANK_CONFIG, utilvars, db, cache, call, started>>

\* clear_manual_question_bank: writes the empty bank without loading.
clear_manual_question_bank(outcome) ==
    /\ bank_file' = WriteFile(bank_file, {}, outcome)
    /\ stale' = IF ClearStatus(outcome) = 200
                THEN Outdated(BankKeys(bank_file.entries)) ELSE stale
    /\ UNCHANGED <<QUESTION_BANK_CONFIG, utilvars, db, cache, call, started>>

\* The record of a handler call: the status, whether the question was in
\* the bank before, the entry counts of the bank before the call and of the
\* bank the handler wrote or meant to write ("count" of the reply).
Op(op, key, status, present, before, count) ==
    [op |-> op, key |-> key, status |-> status, present |-> present,
     before |-> before, count |-> count]
Remember(o) == IF Len(last_op) < 2 THEN Append(last_op, o) ELSE <<last_op[2], o>>

AddOp(file, question, answer, loads, outcome) ==
    Op("add", Strip(question), AddStatus(loads, outcome),
       Strip(question) \in BankKeys(load_manual_question_bank(file)),
       Cardinality(load_manual_question_bank(file)),
       Cardinality(AddEntry(load_manual_question_bank(file), question, answer)))

RemoveOp(file, question, loads, outcome) ==
    Op("remove", Strip(question), RemoveStatus(file, question, loads, outcome),
       Strip(question) \in BankKeys(load_manual_question_bank(file)),
       Cardinality(load_manual_question_bank(file)),
       Cardinality(DelEntry(load_manual_question_bank(file), question)))

ClearOp(file, outcome) ==
    Op("clear", <<>>, ClearStatus(outcome), FALSE, Cardinality(file.entries), 0)

-----------------------------------------------------------------------------
(* Specifications.                                                         *)

Resolve ==
    \/ \E p \in Procs, q \in Titles, type \in TypesIn \cup {Omitted},
          options \in OptionsIn :
           Start(p, "search", q, type, options, TRUE, TRUE, FALSE)
    \/ \E p \in Procs, q \in Titles, type \in TypesIn, options \in OptionsIn,
          use_ai \in BOOLEAN, use_question_bank \in BOOLEAN, use_database \in BOOLEAN :
           Start(p, "direct", q, type, options, use_ai, use_question_bank, use_database)
    \/ \E p \in Procs : QueryDatabase(p)
    \/ \E p \in Procs : QueryQuestionBank(p)
    \/ \E p \in Procs : QueryOcsAnswerer(p)
    \/ \E p \in Procs : QueryAI(p)
    \/ \E p \in Procs : Return(p)
    \/ \E k \in DOMAIN cache : Expire(k)

\* The handlers, keeping the record of the calls.
Mutate ==
    \/ \E question \in BankQuestions, answer \in BankAnswers, loads \in BOOLEAN,
          outcome \in WriteOutcomes :
           /\ add_manual_question(question, answer, loads, outcome)
           /\ last_op' = Remember(AddOp(bank_file, question, answer, loads, outcome))
    \/ \E question \in BankQuestions, loads \in BOOLEAN, outcome \in WriteOutcomes :
           /\ remove_manual_question(question, loads, outcome)
           /\ last_op' = Remember(RemoveOp(bank_file, question, loads, outcome))
    \/ \E outcome \in WriteOutcomes :
           /\ clear_manual_question_bank(outcome)
           /\ last_op' = Remember(ClearOp(bank_file, outcome))

\* The handlers next to the resolutions, for the question the resolutions
\* ask; the record of the calls is not kept.
Next ==
    \/ Resolve
    \/ \E question \in AskedQuestions, answer \in BankAnswers, loads \in BOOLEAN,
          outcome \in WriteOutcomes :
           add_manual_question(question, answer, loads, outcome) /\ UNCHANGED last_op
    \/ \E question \in AskedQuestions, loads \in BOOLEAN, outcome \in WriteOutcomes :
           remove_manual_question(question, loads, outcome) /\ UNCHANGED last_op
    \/ \E outcome \in WriteOutcomes :
           clear_manual_question_bank(outcome) /\ UNCHANGED last_op

\* The whole program.  The handlers of the manual bank and the resolutions
\* meet in the table and in the cache, whatever the remote banks are: the
\* setting is here without remote banks, or with one well-formed config.
WholeInit ==
    /\ Init
    /\ QUESTION_BANK_CONFIG \in {ConfigSources[1], ConfigSources[2]}

Spec == WholeInit /\ [][Next]_vars

\* The resolutions alone: they neither read nor write the manual bank file.
ResolutionSpec == Init /\ [][Resolve]_vars

\* The resolutions, each awaited call of which ends: the database query
\* returns or raises, a request to a remote bank and the chat-completion
\* request return or run into their timeouts (aiohttp.ClientTimeout, lines
\* 254, 264 and 457), after which the event loop resumes the resolution.
\* The table starts empty here; the resolutions fill it with the answers
\* of the AI source.  The setting is without remote banks, with two
\* well-formed configs, or with a list that holds an element that is no
\* config.
LiveInit ==
    /\ Init
    /\ db = {}
    /\ QUESTION_BANK_CONFIG \in {ConfigSources[1], ConfigSources[3], ConfigSources[5]}

ResolutionLiveSpec ==
    /\ LiveInit
    /\ [][Resolve]_vars
    /\ \A p \in Procs :
           /\ WF_vars(QueryDatabase(p))
           /\ WF_vars(QueryQuestionBank(p))
           /\ WF_vars(QueryOcsAnswerer(p))
           /\ WF_vars(QueryAI(p))

\* The manual-bank handlers alone.
BankSpec == Init /\ [][Mutate]_vars

-----------------------------------------------------------------------------
(* The utility functions, each applied to inputs of bounded size.          *)

\* Elements of a candidate list.
MaxConfigs == 2
\* Characters of a text handed to the normalizer.
MaxTextLen == 6

\* A config with a method the validation does not allow.
ConfigWithMethod(method) ==
    Dict([k \in {"url", "name", "handler", "method"} |->
              IF k = "handler" THEN Str(<<"default">>)
              ELSE IF k = "method" THEN Str(<<method>>) ELSE Str(<<k>>)])

\* What a decoded candidate list may hold: configs that are complete, lack
\* a field or have a bad method, and values that are no object (strings, a
\* number, null, a list).
ConfigElements ==
    {Config("default"), ConfigWithout("url"), ConfigWithout("name"),
     ConfigWithout("handler"), ConfigWithMethod("put"),
     Str(<<"url">>), Str(<<"url", "name", "handler">>), Num(1), None, List(<<>>)}

\* Candidates of validate_ocs_config: text that is no JSON, a single value,
\* lists of up to MaxConfigs elements.
Candidates ==
    {[t |-> "text", src |-> None]}
        \cup {[t |-> "json", src |-> x] : x \in ConfigElements}
        \cup {[t |-> "json", src |-> List(l)] :
                  l \in UNION {[1..n -> ConfigElements] : n \in 0..MaxConfigs}}

\* Handler texts: the three names, and texts that are none of them.
HandlerCodes ==
    {<<"default">>, <<"ocs_standard">>, <<"array_response">>,
     <<"custom">>, <<"r", "e", "s">>, <<"default", " ">>}

\* Configs as handle_ocs_response reads them: the handler, and the content
\* type or none.
HandlerConfigs ==
    {Dict([k \in {"handler"} |-> Str(h)]) : h \in HandlerCodes}
        \cup {Dict([k \in {"handler", "contentType"} |->
                        IF k = "handler" THEN Str(h) ELSE Str(<<"text">>)]) :
                  h \in HandlerCodes}

\* A body of the OCS format: a code and a data object with the given keys,
\* the value of each key being the key's name as a text.
OcsBody(code, keys) ==
    Dict([k \in {"code", "data"} |->
              IF k = "code" THEN Num(code) ELSE Dict([j \in keys |-> Str(<<j>>)])])

\* Decoded response bodies: question and answer, the OCS format with a
\* data object and with a number as data, a list, a str, a number; the OCS
\* format with another code, with the answer under "answer", with both
\* keys, without a title, without data.
ResponseData ==
    {QA(Str(<<"cuo", "wu">>)),
     Dict([k \in {"code", "data"} |->
               IF k = "code" THEN Num(1)
               ELSE Dict([j \in {"title", "answers"} |-> Str(<<j>>)])]),
     Dict([k \in {"code", "data"} |-> Num(1)]),
     OcsBody(0, {"title", "answers"}),
     OcsBody(1, {"title", "answer"}),
     OcsBody(1, {"title", "answers", "answer"}),
     OcsBody(1, {"answers"}),
     Dict([k \in {"code"} |-> Num(1)]),
     List(<<Str(<<"tian">>), Str(<<"dui">>)>>),
     Str(<<"dui">>),
     Num(1)}

ResponseBodies ==
    {[json |-> data, text |-> <<"{}">>] : data \in ResponseData}
        \cup {[json |-> Raised, text |-> <<"<", "b", ">">>]}

\* Texts handed to the normalizer.
TextChars == {"tian", "b", " ", "<"}
Texts == UNION {[1..n -> TextChars] : n \in 0..MaxTextLen}

\* Questions handed to the type detection: a stem, then a marker or none.
QuestionStems ==
    {<<>>, <<"1", "+", "1", "=">>, <<"tian", "shi", "yuan", "de", "ma">>,
     <<"tian", "dui", "ma">>}
QuestionMarkers ==
    {<<>>, <<"_", "_">>, <<"_", "_", "_">>, <<"(", ")">>,
     <<"(", "duo", "xuan", ")">>, <<"(", "pan", "duan", ")">>,
     <<"(", "dan", "xuan", ")">>, <<"fw(", "pan", "fw)">>}
DetectorQuestions == {stem \o marker : stem \in QuestionStems, marker \in QuestionMarkers}
\* Options: none, white space, two lines.
DetectorOptions == {<<>>, <<" ">>, <<"A", ".", "dui", "\n", "B", ".", "cuo">>}

\* Answers handed to the formatter: letters in and out of the A#B shape,
\* words of judgment, a word that is none, each also with white space
\* around it; values that are no str.
AnswerTexts ==
    {<<"B", "#", "D">>, <<"A">>, <<"A", ",", " ", "B">>, <<"A", "B">>,
     <<"xuan", "A", "dui", "C">>, <<"b", "#", "D">>,
     <<"dui">>, <<"zheng", "que">>, <<"check">>, <<"T">>, <<"t", "r", "u", "e">>,
     <<"T", "r", "u", "e">>, <<"shi">>, <<"y", "e", "s">>,
     <<"cuo">>, <<"cuo", "wu">>, <<"cross">>, <<"F">>, <<"f", "a", "l", "s", "e">>,
     <<"fou">>, <<"n", "o">>, <<"tian">>, <<>>}
FormatterAnswers ==
    {Str(a) : a \in AnswerTexts} \cup {Str(<<" ">> \o a \o <<" ">>) : a \in AnswerTexts}
        \cup {List(<<Str(<<"A">>), Str(<<"B">>)>>), List(<<>>), Num(1), None}
\* Types handed to the formatter: those of the enumeration, none, another.
FormatterTypes == QuestionTypes \cup {"", "essay"}

\* The record of a call of a function: its argument and what it returned.
\* A behaviour holds one call.
Applied(op, arg, out) == <<[op |-> op, arg |-> arg, out |-> out]>>

ValidateConfig(config) ==
    /\ last_op = <<>>
    /\ last_op' = Applied("validate_ocs_config", config, validate_ocs_config(config))
    /\ UNCHANGED <<QUESTION_BANK_CONFIG, utilvars, db, cache, bank_file, call, started, stale>>

HandleResponse(body, config) ==
    /\ last_op = <<>>
    /\ last_op' = Applied("handle_ocs_response", [body |-> body, config |-> config],
                          handle_ocs_response(body, config))
    /\ UNCHANGED <<QUESTION_BANK_CONFIG, utilvars, db, cache, bank_file, call, started, stale>>

CleanText(text) ==
    /\ last_op = <<>>
    /\ last_op' = Applied("clean_question_text", text, clean_question_text(text))
    /\ UNCHANGED <<QUESTION_BANK_CONFIG, utilvars, db, cache, bank_file, call, started, stale>>

DetectType(question, options) ==
    /\ last_op = <<>>
    /\ last_op' = Applied("detect_question_type",
                          [question |-> question, options |-> options],
                          detect_question_type(question, options))
    /\ UNCHANGED <<QUESTION_BANK_CONFIG, utilvars, db, cache, bank_file, call, started, stale>>

FormatAnswer(answer, question_type, options) ==
    /\ last_op = <<>>
    /\ last_op' = Applied("normalize_answer_for_type",
                          [answer |-> answer, question_type |-> question_type,
                           options |-> options],
                          normalize_answer_for_type(answer, question_type, options))
    /\ UNCHANGED <<QUESTION_BANK_CONFIG, utilvars, db, cache, bank_file, call, started, stale>>

Apply ==
    \/ \E config \in Candidates : ValidateConfig(config)
    \/ \E body \in ResponseBodies, config \in HandlerConfigs : HandleResponse(body, config)
    \/ \E text \in Texts : CleanText(text)
    \/ \E question \in DetectorQuestions, options \in DetectorOptions :
           DetectType(question, options)
    \/ \E answer \in FormatterAnswers, question_type \in FormatterTypes,
          options \in DetectorOptions :
           FormatAnswer(answer, question_type, options)

\* No config set, an empty table, no call made.
FunctionInit ==
    /\ QUESTION_BANK_CONFIG = ConfigSources[1]
    /\ db = {}
    /\ cache = [k \in {} |-> None]
    /\ bank_file = BankFile({})
    /\ call = [p \in Procs |-> IdleCall]
    /\ started = 0
    /\ stale = {}
    /\ last_op = <<>>
    /\ http_client = NoClient
    /\ NoCache

FunctionSpec == FunctionInit /\ [][Apply]_vars

-----------------------------------------------------------------------------
\* utils/http_client.py: the session the module shares.

\* Calls of the module in one behaviour (returned and waiting).
MaxOps == 4

RemoveAt(seq, i) == SubSeq(seq, 1, i - 1) \o SubSeq(seq, i + 1, Len(seq))

\* The log of the calls that returned, the last one at the end.
Logged(op, out) == Append(last_op, [op |-> op, out |-> out])

\* A get that hands out whatever session it holds, closed or not.
get_http_session_unchecked(client) ==
    IF client.session = NoSession
    THEN [client EXCEPT !.session = client.made + 1, !.made = client.made + 1,
                        !.open = client.open \cup {client.made + 1}]
    ELSE client

\* get_http_session: a session is made when none is held or the held one is
\* closed; the held session is returned.
get_http_session(client) ==
    IF client.session = NoSession \/ client.session \notin client.open
    THEN [client EXCEPT !.session = client.made + 1, !.made = client.made + 1,
                        !.open = client.open \cup {client.made + 1}]
    ELSE client

GetHttpSession ==
    /\ Len(last_op) + Len(http_client.closing) < MaxOps
    /\ http_client' = get_http_session(http_client)
    /\ last_op' = Logged("get", http_client'.session)
    /\ UNCHANGED <<QUESTION_BANK_CONFIG, cachevars, db, cache, bank_file, call, started, stale>>

\* init_http_session returns what get_http_session returns.
InitHttpSession ==
    /\ Len(last_op) + Len(http_client.closing) < MaxOps
    /\ http_client' = get_http_session(http_client)
    /\ last_op' = Logged("init", http_client'.session)
    /\ UNCHANGED <<QUESTION_BANK_CONFIG, cachevars, db, cache, bank_file, call, started, stale>>

\* close_http_session up to its await: an open session held is closed, and the
\* call waits for that; the session counts as closed from the start of the wait
\* or from its end, as the library has it.  With no open session held the
\* call drops the reference and returns at once.
CloseHttpSession ==
    /\ Len(last_op) + Len(http_client.closing) < MaxOps
    /\ IF http_client.session # NoSession /\ http_client.session \in http_client.open
       THEN /\ \E early \in BOOLEAN :
                   http_client' =
                       [http_client EXCEPT
                           !.closing = Append(@, http_client.session),
                           !.open = IF early THEN @ \ {http_client.session} ELSE @]
            /\ UNCHANGED last_op
       ELSE /\ http_client' = [http_client EXCEPT !.session = NoSession]
            /\ last_op' = Logged("close", NoSession)
    /\ UNCHANGED <<QUESTION_BANK_CONFIG, cachevars, db, cache, bank_file, call, started, stale>>

\* close_http_session after its await: the session it closed is closed, and
\* _session is set to None.
CloseReturn ==
    /\ \E i \in DOMAIN http_client.closing :
           http_client' = [http_client EXCEPT
                              !.open = @ \ {http_client.closing[i]},
                              !.closing = RemoveAt(@, i),
                              !.session = NoSession]
    /\ last_op' = Logged("close", NoSession)
    /\ UNCHANGED <<QUESTION_BANK_CONFIG, cachevars, db, cache, bank_file, call, started, stale>>

Session ==
    \/ InitHttpSession
    \/ GetHttpSession
    \/ CloseHttpSession
    \/ CloseReturn

SessionSpec == FunctionInit /\ [][Session]_vars

-----------------------------------------------------------------------------
\* utils/cache_manager.py: MemoryCache.  self.cache is the sequence of the
\* entries of the OrderedDict, the first inserted first.

\* The clock runs from 0 to MaxTime; a ttl is None, no second or one second.
MaxTime == 1

CacheKeys == {"a", "b", "c"}
CacheValues == {Str(<<"1">>), Str(<<"2">>)}
TTLs == {None, Num(0), Num(1)}

KeysOf(entries) == {entries[i].key : i \in DOMAIN entries}
EntryOf(entries, key) == The({entries[i] : i \in {j \in DOMAIN entries : entries[j].key = key}})
\* del self.cache[key]
Without(entries, key) == SelectSeq(entries, LAMBDA e : e.key # key)
\* The keys in the order of their most recent use, less some.
Less(used, keys) == SelectSeq(used, LAMBDA k : k \notin keys)

\* A get that returns what it finds, expired or not.
MemoryCache_get_unexpiring(self, key, time) ==
    IF key \in KeysOf(self.cache)
    THEN [self |-> [self EXCEPT !.cache = Append(Without(@, key), EntryOf(self.cache, key)),
                                !.used = Append(Less(@, {key}), key)],
          out |-> EntryOf(self.cache, key).value, expired |-> FALSE]
    ELSE [self |-> self, out |-> None, expired |-> FALSE]

\* MemoryCache.get (lines 22-35): a live entry is moved to the end and its
\* value returned; an expired entry is deleted and None returned.
MemoryCache_get(self, key, time) ==
    IF key \in KeysOf(self.cache)
    THEN LET e == EntryOf(self.cache, key)
         IN  IF e.expire_time.t = "none" \/ e.expire_time.v > time
             THEN [self |-> [self EXCEPT !.cache = Append(Without(@, key), e),
                                         !.used = Append(Less(@, {key}), key)],
                   out |-> e.value, expired |-> FALSE]
             ELSE [self |-> [self EXCEPT !.cache = Without(@, key),
                                         !.used = Less(@, {key})],
                   out |-> None, expired |-> TRUE]
    ELSE [self |-> self, out |-> None, expired |-> FALSE]

\* self.cache[key] = (value, expire_time): a key the OrderedDict holds keeps
\* its place, a new key goes to the end.
Assigned(entries, key, value, expire_time) ==
    LET e == [key |-> key, value |-> value, expire_time |-> expire_time]
    IN  IF key \in KeysOf(entries)
        THEN [i \in DOMAIN entries |-> IF entries[i].key = key THEN e ELSE entries[i]]
        ELSE Append(entries, e)

\* A set that never evicts.
MemoryCache_set_unbounded(self, key, value, ttl, time) ==
    [self |-> [self EXCEPT
                  !.cache = Assigned(@, key, value,
                                     IF ttl.t = "none" THEN None ELSE Num(time + ttl.v)),
                  !.used = Append(Less(@, {key}), key)],
     out |-> None, evicted |-> <<>>]

\* MemoryCache.set (lines 37-46): the entry is assigned, then the first
\* entries are popped while there are more than max_size.
MemoryCache_set(self, key, value, ttl, time) ==
    LET expire_time == IF ttl.t = "none" THEN None ELSE Num(time + ttl.v)
        entries == Assigned(self.cache, key, value, expire_time)
        over == IF Len(entries) > self.max_size THEN Len(entries) - self.max_size ELSE 0
        popped == {entries[i].key : i \in 1 .. over}
    IN  [self |-> [self EXCEPT !.cache = SubSeq(entries, over + 1, Len(entries)),
                               !.used = Less(Append(Less(@, {key}), key), popped)],
         out |-> None,
         evicted |-> [i \in 1 .. over |-> entries[i].key]]

\* MemoryCache.delete (lines 48-54)
MemoryCache_delete(self, key) ==
    [self |-> [self EXCEPT !.cache = Without(@, key), !.used = Less(@, {key})],
     out |-> key \in KeysOf(self.cache)]

\* MemoryCache.clear (lines 56-59)
MemoryCache_clear(self) ==
    [self |-> [self EXCEPT !.cache = <<>>, !.used = <<>>], out |-> None]

\* The record of the last call of the cache: what it was given, what it
\* returned; for a get whether it found an expired entry, for a set the keys
\* it evicted.
Called(op, key, value, ttl, out, expired, evicted) ==
    <<[op |-> op, key |-> key, value |-> value, ttl |-> ttl,
       out |-> out, expired |-> expired, evicted |-> evicted]>>

MemoryGet(key) ==
    /\ \E r \in {MemoryCache_get(memory_cache, key, now)} :
           /\ memory_cache' = r.self
           /\ last_op' = Called("get", key, None, None, r.out, r.expired, <<>>)
    /\ UNCHANGED <<QUESTION_BANK_CONFIG, http_client, redis, now, kept,
                   db, cache, bank_file, call, started, stale>>

MemorySet(key, value, ttl) ==
    /\ \E r \in {MemoryCache_set(memory_cache, key, value, ttl, now)} :
           /\ memory_cache' = r.self
           /\ last_op' = Called("set", key, value, ttl, None, FALSE, r.evicted)
    /\ UNCHANGED <<QUESTION_BANK_CONFIG, http_client, redis, now, kept,
                   db, cache, bank_file, call, started, stale>>

MemoryDelete(key) ==
    /\ \E r \in {MemoryCache_delete(memory_cache, key)} :
           /\ memory_cache' = r.self
           /\ last_op' = Called("delete", key, None, None,
                                IF r.out THEN Num(1) ELSE Num(0), FALSE, <<>>)
    /\ UNCHANGED <<QUESTION_BANK_CONFIG, http_client, redis, now, kept,
                   db, cache, bank_file, call, started, stale>>

MemoryClear ==
    /\ memory_cache' = MemoryCache_clear(memory_cache).self
    /\ last_op' = Called("clear", "", None, None, None, FALSE, <<>>)
    /\ UNCHANGED <<QUESTION_BANK_CONFIG, http_client, redis, now, kept,
                   db, cache, bank_file, call, started, stale>>

\* A second passes.
Tick ==
    /\ now < MaxTime
    /\ now' = now + 1
    /\ UNCHANGED <<QUESTION_BANK_CONFIG, http_client, memory_cache, redis, kept,
                   db, cache, bank_file, call, started, stale, last_op>>

Memory ==
    \/ \E key \in CacheKeys : MemoryGet(key)
    \/ \E key \in CacheKeys, value \in CacheValues, ttl \in TTLs : MemorySet(key, value, ttl)
    \/ \E key \in CacheKeys : MemoryDelete(key)
    \/ MemoryClear
    \/ Tick

\* A memory cache of any capacity up to MaxSize, empty, at time 0.
MemoryInit ==
    /\ QUESTION_BANK_CONFIG = ConfigSources[1]
    /\ db = {}
    /\ cache = [k \in {} |-> None]
    /\ bank_file = BankFile({})
    /\ call = [p \in Procs |-> IdleCall]
    /\ started = 0
    /\ stale = {}
    /\ last_op = <<>>
    /\ http_client = NoClient
    /\ memory_cache \in {EmptyMemory(max_size) : max_size \in 0 .. MaxSize}
    /\ redis = NoRedis
    /\ now = 0
    /\ kept = [k \in {} |-> None]

MemorySpec == MemoryInit /\ [][Memory]_vars

-----------------------------------------------------------------------------
\* utils/cache_manager.py: CacheManager.  The store of Redis maps a key to
\* the pickled value and the time its expiry is reached (None: never).

\* pickle.dumps and pickle.loads
dumps(value) == [pickled |-> value]
loads(serialized) == serialized.pickled

\* The keys Redis holds at a time.
RedisKeys(store, time) ==
    {k \in DOMAIN store : store[k].expire_time.t = "none" \/ store[k].expire_time.v > time}

\* redis_client.set and redis_client.setex
RedisSet(store, key, serialized, expire_time) ==
    [k \in DOMAIN store \cup {key} |->
        IF k = key THEN [value |-> serialized, expire_time |-> expire_time] ELSE store[k]]

\* redis_client.delete
RedisDelete(store, key) == [k \in DOMAIN store \ {key} |-> store[k]]

\* CacheManager.get (lines 80-92); fails: the call of Redis raises.
CacheManager_get(memory, client, key, time, fails) ==
    IF client.enabled
    THEN IF fails
         THEN MemoryCache_get(memory, key, time)
         ELSE [self |-> memory,
               out |-> IF key \in RedisKeys(client.store, time)
                       THEN loads(client.store[key].value)
                       ELSE None,
               expired |-> FALSE]
    ELSE MemoryCache_get(memory, key, time)

\* CacheManager.set (lines 94-108): what becomes of the memory cache.
CacheManager_set(memory, client, key, value, ttl, time, fails) ==
    IF client.enabled /\ ~fails
    THEN [self |-> memory, out |-> None, evicted |-> <<>>]
    ELSE MemoryCache_set(memory, key, value, ttl, time)

\* CacheManager.set: what becomes of the store of Redis; setex with a ttl
\* that is true, set otherwise (lines 99-102).
StoreAfterSet(client, key, value, ttl, time, fails) ==
    IF client.enabled /\ ~fails
    THEN RedisSet(client.store, key, dumps(value),
                  IF Truthy(ttl) THEN Num(time + ttl.v) ELSE None)
    ELSE client.store

\* CacheManager.delete (lines 110-122): Redis unless it raises, and the
\* memory cache in any case.
CacheManager_delete(memory, client, key, time, fails) ==
    [self |-> MemoryCache_delete(memory, key).self,
     store |-> IF client.enabled /\ ~fails THEN RedisDelete(client.store, key)
               ELSE client.store,
     out |-> \/ (client.enabled /\ ~fails /\ key \in RedisKeys(client.store, time))
             \/ MemoryCache_delete(memory, key).out]

\* Whether a call of Redis raises: only a manager that uses Redis calls it.
Failures == IF redis.enabled THEN BOOLEAN ELSE {FALSE}

ManagerGet(key, fails) ==
    /\ \E r \in {CacheManager_get(memory_cache, redis, key, now, fails)} :
           /\ memory_cache' = r.self
           /\ last_op' = Called("get", key, None, None, r.out, r.expired, <<>>)
    /\ UNCHANGED <<QUESTION_BANK_CONFIG, http_client, redis, now, kept,
                   db, cache, bank_file, call, started, stale>>

ManagerSet(key, value, ttl, fails) ==
    /\ \E r \in {CacheManager_set(memory_cache, redis, key, value, ttl, now, fails)} :
           /\ memory_cache' = r.self
           /\ last_op' = Called("set", key, value, ttl, None, FALSE, r.evicted)
    /\ redis' = [redis EXCEPT !.store = StoreAfterSet(redis, key, value, ttl, now, fails)]
    /\ kept' = [k \in DOMAIN kept \cup {key} |->
                   IF k = key
                   THEN [value |-> value,
                         until |-> IF ttl.t = "none" THEN None ELSE Num(now + ttl.v)]
                   ELSE kept[k]]
    /\ UNCHANGED <<QUESTION_BANK_CONFIG, http_client, now,
                   db, cache, bank_file, call, started, stale>>

ManagerDelete(key, fails) ==
    /\ \E r \in {CacheManager_delete(memory_cache, redis, key, now, fails)} :
           /\ memory_cache' = r.self
           /\ redis' = [redis EXCEPT !.store = r.store]
           /\ last_op' = Called("delete", key, None, None,
                                IF r.out THEN Num(1) ELSE Num(0), FALSE, <<>>)
    /\ kept' = [k \in DOMAIN kept \ {key} |-> kept[k]]
    /\ UNCHANGED <<QUESTION_BANK_CONFIG, http_client, now,
                   db, cache, bank_file, call, started, stale>>

\* CacheManager.clear (lines 124-132): flushdb unless Redis raises, and the
\* memory cache in any case.
ManagerClear(fails) ==
    /\ memory_cache' = MemoryCache_clear(memory_cache).self
    /\ redis' = [redis EXCEPT !.store = IF redis.enabled /\ ~fails
                                        THEN [k \in {} |-> None] ELSE @]
    /\ last_op' = Called("clear", "", None, None, None, FALSE, <<>>)
    /\ kept' = [k \in {} |-> None]
    /\ UNCHANGED <<QUESTION_BANK_CONFIG, http_client, now,
                   db, cache, bank_file, call, started, stale>>

\* The key and the ttls given to the manager.
ManagerKeys == {"a"}
ManagerTTLs == {None, Num(1)}

Manager ==
    \/ \E key \in ManagerKeys, fails \in Failures : ManagerGet(key, fails)
    \/ \E key \in ManagerKeys, value \in CacheValues, ttl \in ManagerTTLs,
          fails \in Failures : ManagerSet(key, value, ttl, fails)
    \/ \E key \in ManagerKeys, fails \in Failures : ManagerDelete(key, fails)
    \/ \E fails \in Failures : ManagerClear(fails)
    \/ Tick

\* A manager with or without Redis, both caches empty, at time 0.
ManagerInit ==
    /\ QUESTION_BANK_CONFIG = ConfigSources[1]
    /\ db = {}
    /\ cache = [k \in {} |-> None]
    /\ bank_file = BankFile({})
    /\ call = [p \in Procs |-> IdleCall]
    /\ started = 0
    /\ stale = {}
    /\ last_op = <<>>
    /\ http_client = NoClient
    /\ memory_cache = EmptyMemory(MaxSize)
    /\ redis \in {[NoRedis EXCEPT !.enabled = use_redis] : use_redis \in BOOLEAN}
    /\ now = 0
    /\ kept = [k \in {} |-> None]

ManagerSpec == ManagerInit /\ [][Manager]_vars

-----------------------------------------------------------------------------
(* Properties of the resolutions (ResolutionSpec).                         *)

\* C1: a resolution with the database source and the AI source enabled, for
\* a context the table held an answer for when the call started (the lookup
\* not failing), returns that answer, formatted, with the first source as
\* its source, and invokes no AI source.
C1_Priority ==
    \A p \in Procs :
        (/\ call[p].pc = "done"
         /\ call[p].use_database /\ call[p].use_ai
         /\ call[p].rows # {} /\ ~call[p].db_failed)
        => /\ call[p].result # None
           /\ call[p].result.v.source = "database"
           /\ \E row \in call[p].rows :
                  call[p].result.v.answer =
                      normalize_answer_for_type(row.answer, call[p].ctx.type,
                                                call[p].ctx.options)
           /\ \A i \in 1..Len(call[p].invoked) : call[p].invoked[i] # "ai"

\* C2: a resolution with the AI source enabled, nothing in the table for its
\* context when it started and no remote-bank config set invokes the AI
\* source exactly once, and a result it returns has source "ai" - whatever
\* calls were made before it.
C2_Fallback ==
    \A p \in Procs :
        (/\ call[p].pc = "done"
         /\ call[p].use_ai
         /\ call[p].rows = {}
         /\ QUESTION_BANK_CONFIG.t = "empty")
        => /\ Cardinality({i \in 1..Len(call[p].invoked) : call[p].invoked[i] = "ai"}) = 1
           /\ call[p].result # None => call[p].result.v.source = "ai"

\* C3: a remote-bank config whose request timed out is not the origin of the
\* result, and a resolution in which a request timed out and the remote
\* bank gave no result has gone on to invoke the AI source when the AI
\* source is enabled.
C3_Timeout ==
    \A p \in Procs :
        (call[p].pc = "done" /\ call[p].timeouts # {})
        => /\ (call[p].result # None /\ call[p].result.v.source = "question_bank")
                  => call[p].requests[Len(call[p].requests)] \notin call[p].timeouts
           /\ (call[p].use_ai
                 /\ ~(call[p].result # None /\ call[p].result.v.source = "question_bank"))
                  => \E i \in 1..Len(call[p].invoked) : call[p].invoked[i] = "ai"

\* A resolution whose only remote-bank request timed out and whose result
\* comes from the AI source.
C3_Witness ==
    \E p \in Procs :
        /\ call[p].pc = "done"
        /\ call[p].requests = <<1>> /\ call[p].timeouts = {1}
        /\ call[p].result # None
        /\ call[p].result.v.source = "ai"

\* C4: every result a resolution returns has a non-empty answer: a source
\* that delivers an empty answer does not end the resolution.
C4_NonEmptyAnswer ==
    \A p \in Procs :
        (call[p].pc = "done" /\ call[p].result # None)
        => Truthy(call[p].result.v.answer)

\* C5: what a resolution does depends on its inputs and its sources only: a
\* resolution with an enabled source invokes the first of its sources,
\* whatever resolutions ran before it.
C5_Stateless ==
    \A p \in Procs :
        (/\ call[p].pc = "done"
         /\ query_functions(call[p].use_database, call[p].use_question_bank,
                            call[p].use_ai, QUESTION_BANK_CONFIG) # <<>>)
        => /\ call[p].invoked # <<>>
           /\ call[p].invoked[1] =
                  Head(query_functions(call[p].use_database, call[p].use_question_bank,
                                       call[p].use_ai, QUESTION_BANK_CONFIG))

\* C6: a source the caller disabled is not invoked and is not the source of
\* the result returned, after any earlier resolutions.
C6_Toggle ==
    \A p \in Procs :
        call[p].pc = "done"
        => /\ \A i \in 1..Len(call[p].invoked) :
                  /\ call[p].invoked[i] = "database" => call[p].use_database
                  /\ call[p].invoked[i] = "question_bank" => call[p].use_question_bank
                  /\ call[p].invoked[i] = "ai" => call[p].use_ai
           /\ call[p].result # None
                  => /\ call[p].result.v.source = "database" => call[p].use_database
                     /\ call[p].result.v.source = "question_bank"
                            => call[p].use_question_bank
                     /\ call[p].result.v.source = "ai" => call[p].use_ai

\* C10: for a query whose question is longer than MAX_QUESTION_LENGTH or
\* whose type is given and is none of single, multiple, judgment,
\* completion, no source is invoked and no answer is in the response.
C10_Validation ==
    \A p \in Procs :
        (/\ call[p].via = "search"
         /\ \/ Len(call[p].q) > MAX_QUESTION_LENGTH
            \/ call[p].type \notin QuestionTypes \cup {""})
        => /\ call[p].invoked = <<>>
           /\ call[p].response.code = RESPONSE_CODE_ERROR

-----------------------------------------------------------------------------
(* Properties of the manual-bank handlers.                                 *)

\* C7 (Spec): no resolution returns an answer that was cached before a
\* later add, remove or clear of the bank entry of its question completed.
C7_NoStaleAnswer ==
    \A p \in Procs : ~call[p].stale_hit

\* C8 as stated (BankSpec): an add of q and then a remove of q, both
\* succeeding, leave the entry count as it was before the add - also when
\* q was in the bank before the add.
C8_AddRemoveCount ==
    (/\ Len(last_op) = 2
     /\ last_op[1].op = "add" /\ last_op[1].status = 200
     /\ last_op[2].op = "remove" /\ last_op[2].status = 200
     /\ last_op[2].key = last_op[1].key)
    => last_op[2].count = last_op[1].before

\* C8 (BankSpec): an add of q and then a remove of q, both succeeding, leave
\* the entry count as it was before the add when q was not in the bank
\* before the add.
C8_AddRemoveCountOfNew ==
    (/\ Len(last_op) = 2
     /\ last_op[1].op = "add" /\ last_op[1].status = 200 /\ ~last_op[1].present
     /\ last_op[2].op = "remove" /\ last_op[2].status = 200
     /\ last_op[2].key = last_op[1].key)
    => last_op[2].count = last_op[1].before

\* A question new to a bank of one entry has been added and removed again.
C8_Witness ==
    /\ Len(last_op) = 2
    /\ last_op[1].op = "add" /\ last_op[1].status = 200 /\ ~last_op[1].present
    /\ last_op[1].before = 1
    /\ last_op[2].op = "remove" /\ last_op[2].status = 200
    /\ last_op[2].key = last_op[1].key
    /\ last_op[2].count = 1

\* C9 (BankSpec): at every point the stored file is a whole bank, the one
\* before the mutation or the one after it.
C9_AllOrNothing ==
    bank_file.ok

-----------------------------------------------------------------------------
(* Total failure of a resolution (ResolutionSpec).                         *)

\* C11: a resolution that returns no result has tried every enabled source,
\* in order, and the search operation then answers with the error code and
\* an empty list of results.
C11_NoAnswer ==
    \A p \in Procs :
        (call[p].pc = "done" /\ call[p].result = None)
        => /\ ~call[p].cache_hit
           /\ call[p].invoked =
                  query_functions(call[p].use_database, call[p].use_question_bank,
                                  call[p].use_ai, QUESTION_BANK_CONFIG)
           /\ call[p].via = "search"
                  => /\ call[p].response.code = RESPONSE_CODE_ERROR
                     /\ call[p].response.results = <<>>

\* A search whose remote bank and AI source both gave nothing.
C11_Witness ==
    \E p \in Procs :
        /\ call[p].pc = "done"
        /\ call[p].via = "search"
        /\ call[p].invoked = <<"question_bank", "ai">>
        /\ call[p].requests # <<>>
        /\ call[p].result = None
        /\ call[p].response = NoResponse

-----------------------------------------------------------------------------
(* The remote-bank source (ResolutionSpec).                                *)

\* C12: the remote-bank configs are requested in the order of the list; the
\* first config whose handler result has two fields gives the result of the
\* source, and no config is requested after it.
C12_ConfigOrder ==
    \A p \in Procs :
        /\ \A i, j \in 1..Len(call[p].requests) :
               i < j => call[p].requests[i] < call[p].requests[j]
        /\ call[p].answered # 0
               => /\ call[p].requests # <<>>
                  /\ call[p].answered = call[p].requests[Len(call[p].requests)]
                  /\ call[p].bank_result # None
                  /\ call[p].bank_result.v.source = "question_bank"
        /\ (/\ call[p].pc = "done" /\ ~call[p].cache_hit
            /\ call[p].result # None /\ call[p].result.v.source = "question_bank")
               => /\ call[p].answered # 0
                  /\ call[p].result.v.question = call[p].bank_result.v.question
                  /\ call[p].result.v.answer =
                         normalize_answer_for_type(call[p].bank_result.v.answer,
                                                   call[p].ctx.type, call[p].ctx.options)

\* The first config gave nothing, the second config's result is returned.
C12_Witness ==
    \E p \in Procs :
        /\ call[p].pc = "done"
        /\ call[p].requests = <<1, 2>>
        /\ call[p].answered = 2
        /\ call[p].result # None
        /\ call[p].result.v.source = "question_bank"

\* C13: a remote-bank source that gave no result has gone through every
\* config of the list: a config that fails, whatever the failure, does not
\* keep the later configs from being tried.
C13_LaterConfigsTried ==
    \A p \in Procs :
        (/\ call[p].pc = "done" /\ ~call[p].cache_hit
         /\ \E i \in 1..Len(call[p].invoked) : call[p].invoked[i] = "question_bank"
         /\ Truthy(parse_ocs_config(QUESTION_BANK_CONFIG))
         /\ call[p].answered = 0)
        => call[p].cfg + 1 = Len(parse_ocs_config(QUESTION_BANK_CONFIG).v)

\* C14: every config a request was issued for passes the validation of
\* validate_single_config.
C14_ValidatedBeforeUse ==
    \A p \in Procs :
        \A k \in 1..Len(call[p].requests) :
            \E result \in {validate_single_config(
                               parse_ocs_config(QUESTION_BANK_CONFIG).v[call[p].requests[k]],
                               call[p].requests[k] - 1)} :
                result # Raised /\ result.valid

-----------------------------------------------------------------------------
(* Properties of the utility functions (FunctionSpec).                     *)

\* C15: the result of handle_ocs_response for a handler text that is none
\* of the three handler names is the result for any other such text, the
\* response body and the rest of the config being the same.
C15_HandlerNotEvaluated ==
    (/\ Len(last_op) = 1
     /\ last_op[1].op = "handle_ocs_response"
     /\ last_op[1].arg.config.v["handler"].v \notin SAFE_HANDLERS)
    => \A h \in HandlerCodes \ SAFE_HANDLERS :
           handle_ocs_response(
               last_op[1].arg.body,
               Dict([last_op[1].arg.config.v EXCEPT !["handler"] = Str(h)]))
               = last_op[1].out

\* A handler text that is no name, for a body in the OCS format: the
\* fallback gives title and answers.
C15_Witness ==
    /\ Len(last_op) = 1
    /\ last_op[1].op = "handle_ocs_response"
    /\ last_op[1].arg.config.v["handler"] = Str(<<"r", "e", "s">>)
    /\ last_op[1].arg.body.json.t = "dict"
    /\ last_op[1].out = List(<<Str(<<"title">>), Str(<<"answers">>)>>)

\* C16: the validation of a candidate that holds a config object without
\* the handler field says valid = false; the validation of that object
\* gives an error that names its index and a required field it lacks
\* (handler, when url and name are there), and this error is the result
\* when no element before the object fails.
C16_MissingHandler ==
    (/\ Len(last_op) = 1
     /\ last_op[1].op = "validate_ocs_config"
     /\ last_op[1].arg.t = "json"
     /\ last_op[1].arg.src.t \in {"list", "dict"})
    => LET configs == IF last_op[1].arg.src.t = "list" THEN last_op[1].arg.src.v
                      ELSE <<last_op[1].arg.src>>
       IN  \A i \in 1..Len(configs) :
               (configs[i].t = "dict" /\ "handler" \notin DOMAIN configs[i].v)
               => /\ ~last_op[1].out.valid
                  /\ \E result \in {validate_single_config(configs[i], i - 1)} :
                         /\ result # Raised
                         /\ ~result.valid
                         /\ result.error.kind = "missing"
                         /\ result.error.index = i - 1
                         /\ result.error.field \notin DOMAIN configs[i].v
                         /\ {"url", "name"} \subseteq DOMAIN configs[i].v
                                => result.error.field = "handler"
                         /\ (\A k \in 1..(i - 1) : ~Fails(configs, k))
                                => last_op[1].out = result

\* A list of a complete config and a config without handler: the error
\* names index 1 and the field handler.
C16_Witness ==
    /\ Len(last_op) = 1
    /\ last_op[1].op = "validate_ocs_config"
    /\ last_op[1].arg = [t |-> "json",
                         src |-> List(<<Config("default"), ConfigWithout("handler")>>)]
    /\ last_op[1].out = Invalid([kind |-> "missing", index |-> 1, field |-> "handler"])

\* C17: the validation of a candidate that decodes to a list or an object
\* says valid = false with an error that carries the index of the first
\* failing element when an element fails, and valid = true with the number
\* of elements as count otherwise; there is an error exactly when valid is
\* false.
C17_ElementWise ==
    (/\ Len(last_op) = 1
     /\ last_op[1].op = "validate_ocs_config"
     /\ last_op[1].arg.t = "json"
     /\ last_op[1].arg.src.t \in {"list", "dict"})
    => LET configs == IF last_op[1].arg.src.t = "list" THEN last_op[1].arg.src.v
                      ELSE <<last_op[1].arg.src>>
           out == last_op[1].out
       IN  /\ "error" \in DOMAIN out <=> ~out.valid
           /\ IF \E i \in 1..Len(configs) : Fails(configs, i)
              THEN /\ ~out.valid
                   /\ "index" \in DOMAIN out.error
                   /\ Fails(configs, out.error.index + 1)
                   /\ \A k \in 1..out.error.index : ~Fails(configs, k)
              ELSE /\ out.valid
                   /\ out.count = Len(configs)

-----------------------------------------------------------------------------
(* The type of a resolution (ResolutionSpec).                              *)

\* C18: the type of the context of a resolution is the caller's type when
\* the caller gave one, and the type detect_question_type finds for the
\* cleaned question and options when the caller gave none.
C18_TypePrecedence ==
    \A p \in Procs :
        call[p].pc # "idle"
        => IF call[p].type_given /\ call[p].type # ""
           THEN call[p].ctx.type = call[p].type
           ELSE call[p].ctx.type =
                    detect_question_type(call[p].ctx.title, call[p].ctx.options)

-----------------------------------------------------------------------------
(* The AI source (ResolutionSpec).                                         *)

\* t is s without the white space at its two ends.
IsTrimOf(t, s) ==
    /\ \E i \in 0..Len(s) :
           /\ i + Len(t) <= Len(s)
           /\ \A k \in 1..Len(s) :
                  IF k > i /\ k <= i + Len(t) THEN s[k] = t[k - i] ELSE IsSpace(s[k])
    /\ t # <<>> => ~IsSpace(t[1]) /\ ~IsSpace(t[Len(t)])

\* C19: a chat-completion request that ends in a transport failure or in a
\* status other than 200 makes the AI source give nothing, and the loop goes
\* on or returns without raising; a 200 with a completion text makes it give
\* a result whose answer is the text without the white space at its ends,
\* whose source is "ai" and whose confidence is 0.8.
C19_AIOutcome ==
    \A p \in Procs :
        call[p].ai_outcome # 0
        => LET outcome == AIOutcomes[call[p].ai_outcome]
               result == call[p].ai_result
           IN  /\ call[p].pc \in {"sources", "done"}
               /\ outcome.kind \in {"error", "status"} => result = None
               /\ outcome.kind = "ok"
                  => /\ result # None
                     /\ result.v.answer.t = "str"
                     /\ IsTrimOf(result.v.answer.v, outcome.content)
                     /\ result.v.source = "ai"
                     /\ result.v.confidence = 8
                     /\ result.v.question = Str(call[p].ctx.title)

\* A 200 whose text has white space at its start has given a result, which
\* the call has returned.
C19_Witness ==
    \E p \in Procs :
        /\ call[p].ai_outcome # 0
        /\ AIOutcomes[call[p].ai_outcome].kind = "ok"
        /\ AIOutcomes[call[p].ai_outcome].content # <<>>
        /\ IsSpace(AIOutcomes[call[p].ai_outcome].content[1])
        /\ call[p].ai_result # None
        /\ call[p].pc = "done"
        /\ call[p].result # None
        /\ call[p].result.v.source = "ai"

-----------------------------------------------------------------------------
(* The text normalizer (FunctionSpec).                                     *)

\* C20: cleaning a text that clean_question_text has given changes nothing:
\* clean_question_text(clean_question_text(x)) = clean_question_text(x).
C20_Idempotent ==
    (Len(last_op) = 1 /\ last_op[1].op = "clean_question_text")
    => clean_question_text(last_op[1].out) = last_op[1].out

-----------------------------------------------------------------------------
(* The type detection (FunctionSpec).                                      *)

\* C21: detect_question_type gives completion for the question 1+1=__
\* without options, multiple for a question that holds (duo xuan) and comes
\* with options, and judgment for the question tian shi yuan de ma (pan
\* duan).
C21_Markers ==
    (Len(last_op) = 1 /\ last_op[1].op = "detect_question_type")
    => LET question == last_op[1].arg.question
           options == last_op[1].arg.options
           out == last_op[1].out
       IN  /\ (question = <<"1", "+", "1", "=", "_", "_">> /\ options = <<>>)
              => out = "completion"
           /\ (HasSub(question, <<"(", "duo", "xuan", ")">>) /\ Strip(options) # <<>>)
              => out = "multiple"
           /\ question = <<"tian", "shi", "yuan", "de", "ma", "(", "pan", "duan", ")">>
              => out = "judgment"

-----------------------------------------------------------------------------
(* The answer formatter (FunctionSpec).                                    *)

\* The upper-case letters of a text in their order, joined with "#".
JoinedLetters(s) ==
    LET letters == SelectSeq(s, LAMBDA c : c \in UpperChars)
    IN  [i \in 1..(2 * Len(letters) - 1) |->
             IF i % 2 = 1 THEN letters[(i + 1) \div 2] ELSE "#"]

\* The A#B#C shape: upper-case letters with "#" between them.
InLetterShape(s) ==
    /\ s # <<>>
    /\ \A i \in 1..Len(s) : IF i % 2 = 1 THEN s[i] \in UpperChars ELSE s[i] = "#"
    /\ Len(s) % 2 = 1

\* C22: for the type multiple, normalize_answer_for_type returns an answer
\* of the A#B#C shape as it is, and for any other answer that holds
\* upper-case letters it returns these letters in their order joined with
\* "#".
C22_MultipleLetters ==
    (/\ Len(last_op) = 1
     /\ last_op[1].op = "normalize_answer_for_type"
     /\ last_op[1].arg.question_type = "multiple"
     /\ last_op[1].arg.answer.t = "str")
    => LET answer == Strip(last_op[1].arg.answer.v)
       IN  /\ InLetterShape(answer) => last_op[1].out = Str(answer)
           /\ HasChar(answer, UpperChars) => last_op[1].out = Str(JoinedLetters(answer))

\* The affirmative words: dui, zheng que, the check mark, T, true, shi, yes.
AffirmativeTokens ==
    {<<"dui">>, <<"zheng", "que">>, <<"check">>, <<"T">>, <<"t", "r", "u", "e">>,
     <<"shi">>, <<"y", "e", "s">>}

\* C23: for the type judgment, normalize_answer_for_type returns dui for
\* every affirmative word, cuo for every negative word, and any other
\* answer as it is.
C23_JudgmentWords ==
    (/\ Len(last_op) = 1
     /\ last_op[1].op = "normalize_answer_for_type"
     /\ last_op[1].arg.question_type = "judgment"
     /\ last_op[1].arg.answer.t = "str")
    => LET answer == Strip(last_op[1].arg.answer.v)
       IN  IF answer \in AffirmativeTokens THEN last_op[1].out = Str(<<"dui">>)
           ELSE IF answer \in JudgmentNo THEN last_op[1].out = Str(<<"cuo">>)
           ELSE last_op[1].out \in {Str(answer), last_op[1].arg.answer}

-----------------------------------------------------------------------------
(* Formatting in the resolution (ResolutionSpec).                          *)

\* C24: the result a remote bank has given is the result of the resolution,
\* whatever its answer is: formatting does not fail, and an answer that is
\* no text is returned as it came.
C24_AnswerNotLost ==
    \A p \in Procs :
        call[p].bank_result # None
        => /\ call[p].pc = "done"
           /\ call[p].result # None
           /\ call[p].result.v.source = "question_bank"
           /\ call[p].bank_result.v.answer.t # "str"
              => call[p].result.v.answer = call[p].bank_result.v.answer

-----------------------------------------------------------------------------
(* Failures of the sources (ResolutionSpec).                               *)

\* A source of the call has failed: the database query raised, a request to
\* a remote bank timed out, or the chat-completion request failed.
SourceFailed(c) ==
    \/ c.db_failed
    \/ c.timeouts # {}
    \/ c.ai_outcome # 0 /\ AIOutcomes[c.ai_outcome].kind = "error"

\* C25: after a source of a resolution has failed, the resolution is still
\* running or has returned; the sources it has invoked are the first of its
\* enabled sources in their order; it has returned no answer only after
\* invoking all of them, and a result only from the last one it invoked.
C25_FailureCaught ==
    \A p \in Procs :
        SourceFailed(call[p])
        => LET c == call[p]
               enabled == query_functions(c.use_database, c.use_question_bank,
                                          c.use_ai, QUESTION_BANK_CONFIG)
           IN  /\ c.pc \in {"sources", "done"}
               /\ Len(c.invoked) <= Len(enabled)
               /\ c.invoked = SubSeq(enabled, 1, Len(c.invoked))
               /\ c.pc = "sources"
                  => /\ c.todo # <<>>
                     /\ c.todo = SubSeq(enabled, Len(enabled) - Len(c.todo) + 1, Len(enabled))
                     /\ Len(c.invoked) + Len(c.todo) \in {Len(enabled), Len(enabled) + 1}
               /\ (c.pc = "done" /\ c.result = None) => c.invoked = enabled
               /\ (c.pc = "done" /\ c.result # None)
                  => c.result.v.source = c.invoked[Len(c.invoked)]

\* A resolution whose database query raised and whose result comes from a
\* source after the database.
C25_Witness ==
    \E p \in Procs :
        /\ call[p].db_failed
        /\ call[p].pc = "done"
        /\ call[p].result # None
        /\ call[p].result.v.source \in {"question_bank", "ai"}
        /\ Len(call[p].invoked) >= 2

-----------------------------------------------------------------------------
(* No retry (ResolutionSpec).                                              *)

\* C26: a resolution invokes each of its sources at most once and requests
\* each remote-bank config at most once, whatever the source or the config
\* gave.
C26_NoRetry ==
    \A p \in Procs :
        /\ \A i, j \in 1..Len(call[p].invoked) :
               call[p].invoked[i] = call[p].invoked[j] => i = j
        /\ \A i, j \in 1..Len(call[p].requests) :
               call[p].requests[i] = call[p].requests[j] => i = j

\* A resolution both of whose remote-bank requests timed out, and whose AI
\* request failed: three failures, each source and config asked once.
C26_Witness ==
    \E p \in Procs :
        /\ call[p].pc = "done"
        /\ call[p].requests = <<1, 2>>
        /\ call[p].timeouts = {1, 2}
        /\ call[p].invoked = <<"question_bank", "ai">>
        /\ call[p].ai_outcome # 0
        /\ AIOutcomes[call[p].ai_outcome].kind = "error"

-----------------------------------------------------------------------------
(* Termination (ResolutionLiveSpec).                                       *)

\* The call has returned, having invoked none of its sources and requested
\* none of the remote-bank configs more than once.
ReturnedAfterOneTryEach(c) ==
    /\ c.pc = "done"
    /\ Len(c.invoked) <= 3
    /\ \A i, j \in 1..Len(c.invoked) : c.invoked[i] = c.invoked[j] => i = j
    /\ \A i, j \in 1..Len(c.requests) : c.requests[i] = c.requests[j] => i = j
    /\ \A i \in 1..Len(c.requests) :
           /\ Truthy(parse_ocs_config(QUESTION_BANK_CONFIG))
           /\ c.requests[i] \in 1..Len(parse_ocs_config(QUESTION_BANK_CONFIG).v)

\* C27: every resolution that has started returns, with a result or with
\* no answer, after at most one try of each source and of each remote-bank
\* config.
C27_Terminates ==
    \A p \in Procs : (call[p].pc = "sources") ~> ReturnedAfterOneTryEach(call[p])

\* A resolution that has gone through a timeout of each of its two remote
\* banks and a failure of the database and has returned no answer.
C27_Witness ==
    \E p \in Procs :
        /\ call[p].pc = "done"
        /\ call[p].result = None
        /\ call[p].db_failed
        /\ call[p].timeouts = {1, 2}
        /\ call[p].invoked = <<"database", "question_bank", "ai">>

-----------------------------------------------------------------------------
(* The single formatting (ResolutionSpec).                                 *)

\* What the remote bank or the AI source gave to the call, before any
\* formatting; None for another source.
SourceResult(c) ==
    IF c.result = None THEN None
    ELSE IF c.result.v.source = "ai" THEN c.ai_result
    ELSE IF c.result.v.source = "question_bank" THEN c.bank_result
    ELSE None

\* C28: the answer a resolution returns, and the answer of the search
\* response, is the source's answer formatted once: with the type the
\* source's result reports, or with the type of the context when it reports
\* none.
C28_FormattedOnce ==
    \A p \in Procs :
        (/\ call[p].pc = "done" /\ ~call[p].cache_hit
         /\ SourceResult(call[p]) # None)
        => LET c == call[p]
               raw == SourceResult(c).v
               formatted == normalize_answer_for_type(
                                raw.answer,
                                IF raw.has_type THEN raw.question_type ELSE c.ctx.type,
                                c.ctx.options)
           IN  /\ c.result.v.answer = formatted
               /\ c.via = "search"
                  => /\ c.response.code = RESPONSE_CODE_SUCCESS
                     /\ Len(c.response.results) = 1
                     /\ c.response.results[1].answer = formatted

-----------------------------------------------------------------------------
(* The response handlers (FunctionSpec).                                   *)

\* The last call is one of handle_ocs_response with a decoded JSON body and
\* a handler text of the given set.
HandledWith(handlers) ==
    /\ Len(last_op) = 1
    /\ last_op[1].op = "handle_ocs_response"
    /\ "contentType" \notin DOMAIN last_op[1].arg.config.v
    /\ last_op[1].arg.body.json # Raised
    /\ last_op[1].arg.config.v["handler"].v \in handlers

\* C29: the handler ocs_standard gives the pair of data.title and the
\* answer, which is data.answers or, without that key, data.answer, when
\* the body is an object whose code is 1, and gives nothing for any other
\* body.
C29_OcsStandard ==
    HandledWith({<<"ocs_standard">>})
    => LET res == last_op[1].arg.body.json
           out == last_op[1].out
       IN  IF res.t = "dict" /\ Get(res, "code", None) = Num(RESPONSE_CODE_SUCCESS)
           THEN /\ out # None
                /\ Get(res, "data", Dict(<<>>)).t = "dict"
                   => LET data == Get(res, "data", Dict(<<>>))
                      IN  out = List(<<Get(data, "title", Str(<<>>)),
                                       IF "answers" \in DOMAIN data.v
                                       THEN data.v["answers"]
                                       ELSE Get(data, "answer", Str(<<>>))>>)
           ELSE out = None

\* C30: for a handler text that is none of the three names the fallback
\* gives a pair for every decoded body: question and answer of an object
\* that has both keys; else title and answers (or answer) of an object with
\* code and data; else the first two elements of a list of two or more;
\* else the empty question and the body.
C30_Fallback ==
    HandledWith(HandlerCodes \ SAFE_HANDLERS)
    => LET res == last_op[1].arg.body.json
           out == last_op[1].out
           data == Get(res, "data", None)
       IN  /\ out # None
           /\ out.t = "list"
           /\ Len(out.v) = 2
           /\ IF res.t = "dict" /\ {"question", "answer"} \subseteq DOMAIN res.v
              THEN out = List(<<res.v["question"], res.v["answer"]>>)
              ELSE IF /\ res.t = "dict" /\ {"code", "data"} \subseteq DOMAIN res.v
                      /\ data.t = "dict" /\ "title" \in DOMAIN data.v
                      /\ {"answers", "answer"} \cap DOMAIN data.v # {}
              THEN out = List(<<data.v["title"],
                                IF "answers" \in DOMAIN data.v THEN data.v["answers"]
                                ELSE data.v["answer"]>>)
              ELSE IF res.t = "list" /\ Len(res.v) >= 2
              THEN out \in {List(<<res.v[1], res.v[2]>>),
                            List(<<PyStr(res.v[1]), PyStr(res.v[2])>>)}
              ELSE out \in {List(<<Str(<<>>), res>>), List(<<Str(<<>>), PyStr(res)>>)}

-----------------------------------------------------------------------------
(* Detection with options, and the completion answers (FunctionSpec).      *)

\* The question carries a marker of the given two-character keyword: the
\* keyword itself, or one of its characters between brackets.
HasMarker(question, keyword) ==
    HasSub(question, keyword) \/ HasBracketed(question, {keyword[1], keyword[2]})

\* C31: with options that are not empty, detect_question_type gives single
\* for every question that carries neither the marker duo xuan nor the
\* marker pan duan, and never gives completion.
C31_SingleByDefault ==
    (/\ Len(last_op) = 1
     /\ last_op[1].op = "detect_question_type"
     /\ last_op[1].arg.options # <<>>)
    => /\ last_op[1].out # "completion"
       /\ (/\ ~HasMarker(last_op[1].arg.question, <<"duo", "xuan">>)
           /\ ~HasMarker(last_op[1].arg.question, <<"pan", "duan">>))
          => last_op[1].out = "single"

\* C32: for the type completion with options, an answer that is one
\* upper-case letter is returned as it came; any other answer of the type
\* completion is returned cleaned by clean_question_text.
C32_CompletionLetter ==
    (/\ Len(last_op) = 1
     /\ last_op[1].op = "normalize_answer_for_type"
     /\ last_op[1].arg.question_type = "completion"
     /\ last_op[1].arg.answer.t = "str"
     /\ last_op[1].arg.answer.v # <<>>)
    => LET raw == last_op[1].arg.answer.v
           answer == Strip(raw)
       IN  IF Len(answer) = 1 /\ answer[1] \in UpperChars /\ last_op[1].arg.options # <<>>
           THEN last_op[1].out \in {Str(raw), Str(answer)}
           ELSE last_op[1].out = Str(clean_question_text(raw))

\* C33: a get or an init returns the session the module holds, and that
\* session is open; a close that returned leaves no session held; a get or an
\* init that is the first call, or follows a returned close, returns a session
\* made by that very call; the session held is always none or one that was made.
C33_SessionLifecycle ==
    [][/\ http_client'.session \in {NoSession} \cup (1 .. http_client'.made)
       /\ Len(last_op') = Len(last_op) + 1 =>
              LET ret == last_op'[Len(last_op')]
              IN  /\ ret.op \in {"get", "init"} =>
                         /\ ret.out = http_client'.session
                         /\ ret.out \in http_client'.open
                  /\ ret.op = "close" => http_client'.session = NoSession
                  /\ (/\ ret.op \in {"get", "init"}
                      /\ (last_op = <<>> \/ last_op[Len(last_op)].op = "close")) =>
                         /\ ret.out = http_client.made + 1
                         /\ ret.out \notin http_client.open]_vars

\* An init, a close and a get, in this order: the get returned the second
\* session, which is open, and the first one is closed.
C33_Witness ==
    /\ Len(last_op) = 3
    /\ last_op[1] = [op |-> "init", out |-> 1]
    /\ last_op[2] = [op |-> "close", out |-> NoSession]
    /\ last_op[3] = [op |-> "get", out |-> 2]
    /\ http_client.session = 2
    /\ http_client.open = {2}

\* A step of MemorySpec that is a call of set.
IsSet == last_op' # <<>> /\ last_op'[1].op = "set" /\ now' = now
\* A step of MemorySpec that is a call of get.
IsGet == last_op' # <<>> /\ last_op'[1].op = "get" /\ now' = now

\* C34: the entries a set evicts are the least recently used: every evicted
\* key was used (got with a hit, or set) longer ago than every key that
\* stays, the key just set being the most recently used of all.
C34_EvictsLeastRecentlyUsed ==
    [][IsSet =>
          LET order == Append(Less(memory_cache.used, {last_op'[1].key}), last_op'[1].key)
              evicted == {last_op'[1].evicted[i] : i \in DOMAIN last_op'[1].evicted}
              at(k) == The({i \in DOMAIN order : order[i] = k})
          IN  \A e \in evicted, r \in KeysOf(memory_cache'.cache) : at(e) < at(r)]_vars

\* C35: the memory cache never holds more entries than max_size.
C35_WithinCapacity == Len(memory_cache.cache) <= memory_cache.max_size

\* A set into a full cache evicted an entry, and the cache is full again.
C35_Witness ==
    /\ last_op # <<>>
    /\ last_op[1].op = "set"
    /\ last_op[1].evicted # <<>>
    /\ memory_cache.max_size = MaxSize
    /\ Len(memory_cache.cache) = MaxSize

\* C36: a get returns the value of the entry of its key when that entry has
\* no expiry or an expiry later than the time of the get, and keeps the entry;
\* otherwise it returns None, and an entry whose expiry is reached is removed.
\* A set without ttl makes an entry without expiry, a set with ttl one that
\* expires ttl seconds after the set.
C36_NoExpiredEntry ==
    [][/\ IsGet =>
              LET key == last_op'[1].key
                  live == {e \in {memory_cache.cache[i] : i \in DOMAIN memory_cache.cache} :
                              /\ e.key = key
                              /\ (e.expire_time.t = "none" \/ e.expire_time.v > now)}
              IN  /\ \A e \in live : last_op'[1].out = e.value
                  /\ live # {} => key \in KeysOf(memory_cache'.cache)
                  /\ live = {} => /\ last_op'[1].out = None
                                  /\ key \notin KeysOf(memory_cache'.cache)
       /\ (IsSet /\ last_op'[1].key \in KeysOf(memory_cache'.cache)) =>
              LET e == EntryOf(memory_cache'.cache, last_op'[1].key)
              IN  IF last_op'[1].ttl.t = "none"
                  THEN e.expire_time = None
                  ELSE e.expire_time = Num(now + last_op'[1].ttl.v)]_vars

\* A get found an entry whose expiry had passed: it returned None and the
\* entry is gone.
C36_Witness ==
    /\ last_op # <<>>
    /\ last_op[1].op = "get"
    /\ last_op[1].expired
    /\ now > 0
    /\ last_op[1].out = None
    /\ last_op[1].key \notin KeysOf(memory_cache.cache)

\* C37: a get of the manager returns what the last set of its key stored,
\* when no delete of the key and no clear came after that set and the ttl of
\* the set has not elapsed, whether the calls of Redis failed or not.
C37_RoundTrip ==
    [][(IsGet /\ last_op'[1].key \in DOMAIN kept) =>
          LET set == kept[last_op'[1].key]
          IN  (set.until.t = "none" \/ set.until.v > now) => last_op'[1].out = set.value]_vars

C39_RemoveAbsent ==
    [][(/\ last_op' # <<>>
        /\ last_op'[Len(last_op')].op = "remove"
        /\ ~last_op'[Len(last_op')].present)
           => /\ bank_file' = bank_file
              /\ \/ last_op'[Len(last_op')].status = 404
                 \/ (~bank_file.ok /\ last_op'[Len(last_op')].status = 500)]_vars

\* A remove of a question that a bank of one entry does not hold: 404, and
\* the bank still holds its entry.
C39_Witness ==
    /\ last_op # <<>>
    /\ last_op[Len(last_op)].op = "remove"
    /\ last_op[Len(last_op)].status = 404
    /\ ~last_op[Len(last_op)].present
    /\ last_op[Len(last_op)].before = 1
    /\ bank_file.ok
    /\ Cardinality(bank_file.entries) = 1

=============================================================================
